---- MODULE Spec2Model ----
(***************************************************************************)
(* Model of the eigenvalue use cases of talDoFlemis/nume                   *)
(* (internal/usecases: PowerUseCase.RegularPower, InversePower,            *)
(* FarthestEigenvaluePower, NearestEigenvaluePower, innerRegularPower,     *)
(* extractEigenvectorFromMatrix; SimilarityTransformationUseCase's         *)
(* HouseholderMethod and QRMethod).                                        *)
(*                                                                         *)
(* Arithmetic.  The program computes in float64.  The model computes in    *)
(* exact arithmetic over the extended rationals: a number is a pair        *)
(* <<n, d>> with d > 0 in lowest terms, <<1,0>> and <<-1,0>> are +Inf and  *)
(* -Inf, and <<0,0>> is NaN, with the IEEE-754 rules for the special       *)
(* values.  Rounding is not modelled; common factors are cancelled before  *)
(* products are formed, which leaves every value unchanged.                *)
(*                                                                         *)
(* Unit vectors.  bestEigenvector is always x/||x|| for an integer (or     *)
(* rational) vector x; it is represented by the primitive integer vector   *)
(* with the same direction (entries divided by their gcd), which names     *)
(* the unit vector uniquely.  The vector 0/||0|| is NaN in every entry.    *)
(*                                                                         *)
(* Matrices.  A *mat.Dense handed to innerRegularPower is [num, den]: the  *)
(* integer matrix num divided by the non-zero integer den (den = 1 except  *)
(* for an inverse, which is adjugate/determinant).                         *)
(***************************************************************************)
EXTENDS Integers, Sequences, FiniteSets, TLC

VARIABLES
    pc,                 \* "idle" | "core" (inside innerRegularPower's loop) | "done"
    call,               \* the arguments of the call in progress
    coreMatrix,         \* innerRegularPower's matrix argument
    bestEigenvector,    \* innerRegularPower's bestEigenvector
    bestEigenvalue,     \* innerRegularPower's bestEigenvalue
    currentError,       \* innerRegularPower's currentError
    currentIteration,   \* innerRegularPower's currentIteration
    stop,               \* which exit the loop took: "none" | "zeroNorm" | "converged"
    products,           \* number of Y.MulVec calls made by the call in progress
    result,             \* what the entry point returned (or that it panicked)
    owned               \* the caller's matrix and initialGuess as they are now, and
                        \* the buffer behind the Eigenvector returned

VARIABLES
    rpc,                \* extractEigenvectorFromMatrix: "idle" | "scan" | "done"
    eigenvalues,        \* eig.Values(nil), each a complex number <<re, im>>
    scanTarget,         \* extractEigenvectorFromMatrix's targetEigenvalue
    bestIndex,          \* extractEigenvectorFromMatrix's bestIndex (from 0, as in the code)
    bestDiff,           \* extractEigenvectorFromMatrix's bestDiff
    scanIndex,          \* the loop variable i of the scan
    extraction          \* what extractEigenvectorFromMatrix returned

VARIABLES
    spc,                \* "idle" | "householder" | "hdone" | "qr" | "qdone"
    memory,             \* the contents of every buffer, by the name the code gives it
    sargs,              \* the arguments of the similarity call in progress
    given,              \* the caller-owned buffers as they were when the call was made
    pivot,              \* HouseholderMethod's loop variable i
    reflector,          \* HouseholderMethod's householderMatrixI of the last pass
    iter,               \* QRMethod's loop variable iter
    exit,               \* how QRMethod's loop ended: "none" | "converged" | "budget"
    hresult,            \* what HouseholderMethod returned
    qresult,            \* what QRMethod returned
    earlier             \* the result of the QRMethod call whose output is run again

VARIABLES
    tpc,                \* per goroutine: "idle" | "loop" | "product" | "done"
    tcall,              \* per goroutine: the arguments of its call
    tlocal,             \* per goroutine: the local variables of innerRegularPower
    scratch,            \* the contents of the Y vectors, by buffer
    tresult             \* per goroutine: what its call returned

VARIABLES
    gpc,                \* "idle" | "shifted" | "rotated" | "sweep" | "swept"
    gargs,              \* the arguments of the helper call in progress
    sweepQ,             \* qrDecompositionGivens's Q
    sweepR,             \* qrDecompositionGivens's R
    sweepIndex,         \* qrDecompositionGivens's loop variable i
    passes,             \* per pass of that loop: the entry R[i+1][i] it tested
                        \* and whether it rotated
    gout                \* what the helper returned

VARIABLES
    eigenModel,         \* the fields of the TUI's EigenModel that generateResult uses
    generated           \* the last call of EigenModel.generateResult: how it ended
                        \* and what it did with powerResult

VARIABLES
    ipc,                \* Calculate of a partitioned integrator: "idle" | "loop" | "done"
    icall,              \* its arguments, the strategy's AllowPartitioning, and delta
    cursor,             \* the loop variable i of Calculate
    intervals,          \* the sub-intervals strategy.Integrate was invoked on, in order
    ireturn             \* what Calculate returned

powerVars == <<pc, call, coreMatrix, bestEigenvector, bestEigenvalue, currentError,
               currentIteration, stop, products, result, owned>>

resolverVars == <<rpc, eigenvalues, scanTarget, bestIndex, bestDiff, scanIndex,
                  extraction>>

similarityVars == <<spc, memory, sargs, given, pivot, reflector, iter, exit, hresult,
                    qresult, earlier>>

concurrentVars == <<tpc, tcall, tlocal, scratch, tresult>>

helperVars == <<gpc, gargs, sweepQ, sweepR, sweepIndex, passes, gout>>

tuiVars == <<eigenModel, generated>>

integralVars == <<ipc, icall, cursor, intervals, ireturn>>

vars == <<powerVars, resolverVars, similarityVars, concurrentVars, helperVars, tuiVars,
          integralVars>>

\* the caller makes one call at a time
Idle == pc = "idle" /\ rpc = "idle" /\ spc = "idle"

\* a call of the power use case touches nothing else
PowerFrame == UNCHANGED <<resolverVars, similarityVars, concurrentVars, helperVars, tuiVars,
        integralVars>>

\* a call of extractEigenvectorFromMatrix on its own touches nothing else
ResolverFrame == UNCHANGED <<powerVars, similarityVars, concurrentVars, helperVars, tuiVars,
        integralVars>>

\* a call of HouseholderMethod or QRMethod touches nothing else
SimilarityFrame == UNCHANGED <<powerVars, resolverVars, concurrentVars, helperVars, tuiVars,
        integralVars>>

\* concurrent calls touch nothing of the sequential callers above
ConcurrentFrame == UNCHANGED <<powerVars, resolverVars, similarityVars, helperVars, tuiVars,
        integralVars>>

\* a call of one of QRMethod's helpers on its own touches nothing else
HelperFrame == UNCHANGED <<powerVars, resolverVars, similarityVars, concurrentVars,
                           tuiVars, integralVars>>

\* a key handled by the TUI's eigen screen touches nothing else
TuiFrame == UNCHANGED <<powerVars, resolverVars, similarityVars, concurrentVars,
                        helperVars, integralVars>>

\* a call of a partitioned integrator touches nothing else
IntegralFrame == UNCHANGED <<powerVars, resolverVars, similarityVars, concurrentVars,
                             helperVars, tuiVars>>

----------------------------------------------------------------------------
(* Bounds and input sets *)

MaxIter == 2

MatVals == {-1, 0, 2, 3}

SquareMatrices ==
    { <<<<a>>>> : a \in MatVals } \cup
    { <<<<a, b>>, <<c, d>>>> : a \in MatVals, b \in MatVals, c \in MatVals, d \in MatVals }

MalformedMatrices ==
    { <<>>,                          \* no rows
      << <<>> >>,                    \* one empty row
      << <<2, 3>> >>,                \* 1 x 2
      << <<2>>, <<3>> >>,            \* 2 x 1
      << <<2, 3>>, <<-1>> >>,        \* ragged, second row short
      << <<2, 3>>, <<-1, 0, 2>> >>,  \* ragged, second row long
      << <<2, 3>>, <<>> >> }         \* ragged, second row empty

Matrices == SquareMatrices \cup MalformedMatrices

Guesses ==
    { <<>>, <<0>>, <<1>>, <<0, 0>>, <<1, 0>>, <<1, 1>>, <<1, 3>>, <<3, 1>>, <<-1, 1>> }

Epsilons == { <<1, 10>>, <<1, 1>> }

Shifts == { -1, 0, 2 }

----------------------------------------------------------------------------
(* Integer helpers *)

Abs(x) == IF x < 0 THEN -x ELSE x

Sign(x) == IF x < 0 THEN -1 ELSE IF x > 0 THEN 1 ELSE 0

RECURSIVE GCD(_, _)
GCD(a, b) == IF b = 0 THEN a ELSE GCD(b, a % b)

RECURSIVE SumTo(_, _)
SumTo(f, n) == IF n = 0 THEN 0 ELSE f[n] + SumTo(f, n - 1)

RECURSIVE GcdTo(_, _)
GcdTo(f, n) == IF n = 0 THEN 0 ELSE GCD(Abs(f[n]), GcdTo(f, n - 1))

----------------------------------------------------------------------------
(* float64 values as extended rationals *)

NaN == <<0, 0>>

PosInf == <<1, 0>>

Zero == <<0, 1>>

Rat(n, d) ==
    IF d = 0 THEN <<Sign(n), 0>>
    ELSE LET g == GCD(Abs(n), Abs(d)) IN <<(Sign(d) * n) \div g, Abs(d) \div g>>

IsNaN(x) == x = NaN

IsFinite(x) == x[2] # 0

FInt(i) == <<i, 1>>

FAbs(x) == <<Abs(x[1]), x[2]>>

FNeg(x) == <<-x[1], x[2]>>

FAdd(x, y) ==
    IF IsNaN(x) \/ IsNaN(y) THEN NaN
    ELSE IF ~IsFinite(x) /\ ~IsFinite(y) THEN (IF x = y THEN x ELSE NaN)
    ELSE IF ~IsFinite(x) THEN x
    ELSE IF ~IsFinite(y) THEN y
    ELSE LET g == GCD(x[2], y[2])
         IN Rat(x[1] * (y[2] \div g) + y[1] * (x[2] \div g), (x[2] \div g) * y[2])

FSub(x, y) == FAdd(x, FNeg(y))

\* x / y; a zero divisor is +0 (the model has no negative zero)
FDiv(x, y) ==
    IF IsNaN(x) \/ IsNaN(y) THEN NaN
    ELSE IF ~IsFinite(x) /\ ~IsFinite(y) THEN NaN
    ELSE IF ~IsFinite(x) THEN <<x[1] * (IF y[1] < 0 THEN -1 ELSE 1), 0>>
    ELSE IF ~IsFinite(y) THEN Zero
    ELSE IF y[1] = 0 THEN <<Sign(x[1]), 0>>
    ELSE LET gn == GCD(Abs(x[1]), Abs(y[1]))
             gd == GCD(x[2], y[2])
         IN Rat((x[1] \div gn) * (y[2] \div gd), (x[2] \div gd) * (y[1] \div gn))

\* x < y, false when either is NaN
FLess(x, y) ==
    IF IsNaN(x) \/ IsNaN(y) THEN FALSE
    ELSE IF ~IsFinite(x) THEN x[1] < 0 /\ y # x
    ELSE IF ~IsFinite(y) THEN y[1] > 0
    ELSE LET g == GCD(x[2], y[2]) IN x[1] * (y[2] \div g) < y[1] * (x[2] \div g)

----------------------------------------------------------------------------
(* Matrices ([][]float64 and *mat.Dense) and vectors *)

Rows(M) == Len(M)

Cols(M) == Len(M[1])

DotInt(a, b) == SumTo([i \in 1..Len(a) |-> a[i] * b[i]], Len(a))

\* the integer part of Y.MulVec(matrix, bestEigenvector): num * u
MulVecInt(N, u) == [i \in 1..Len(N) |-> DotInt(N[i], u)]

\* Y.MulVec panics with ErrShape unless matrix is r x c, the vector has c
\* entries and the receiver Y, allocated with the guess's length, has r
MulVecPanics(N, u) == Cols(N) # Len(u) \/ Rows(N) # Len(u)

ScaleInt(k, u) == [i \in 1..Len(u) |-> k * u[i]]

IsZeroVec(u) == \A i \in 1..Len(u) : u[i] = 0

NaNVec(n) == [kind |-> "nan", dir |-> [i \in 1..n |-> 0]]

\* ScaleVec(1/x.Norm(2), x): the unit vector along x; NaN entries when x = 0
\* (1/0 = +Inf and Inf * 0 = NaN)
Normalize(x) ==
    LET g == GcdTo(x, Len(x)) IN
    IF g = 0 THEN NaNVec(Len(x))
    ELSE [kind |-> "unit", dir |-> [i \in 1..Len(x) |-> x[i] \div g]]

IsValueZero == [value \in Int |-> value = 0]

all(values, condition) == \A i \in 1..Len(values) : condition[values[i]]

\* constructMatrix indexes matrix[0] and matrix[i][j] for j < len(matrix[0]),
\* then mat.NewDense(rows, cols, data) panics when cols = 0
constructMatrixPanics(matrix) ==
    \/ Len(matrix) = 0
    \/ Len(matrix[1]) = 0
    \/ \E i \in 1..Len(matrix) : Len(matrix[i]) < Len(matrix[1])

\* rows x len(matrix[0]); entries of a longer row beyond len(matrix[0]) are dropped
constructMatrix(matrix) ==
    [i \in 1..Len(matrix) |-> SubSeq(matrix[i], 1, Len(matrix[1]))]

\* mat.NewVecDense(len(vector), vector) panics on length 0
constructVectorPanics(vector) == Len(vector) = 0

denseToSliceOfSlices(m) ==
    [i \in 1..Rows(m) |-> [j \in 1..Cols(m) |-> m[i][j]]]

\* A + scalarMatrix, where scalarMatrix is cols x cols with -scalar on its diagonal
ShiftedMatrix(A, scalar) ==
    [i \in 1..Rows(A) |-> [j \in 1..Cols(A) |->
        IF i = j THEN A[i][j] - scalar ELSE A[i][j]]]

\* mat.Dense.Add panics with ErrShape unless both operands have the same shape
ShiftPanics(A) == Rows(A) # Cols(A)

RemoveAt(s, k) == [i \in 1..(Len(s) - 1) |-> IF i < k THEN s[i] ELSE s[i + 1]]

Minor(M, r, c) == [i \in 1..(Len(M) - 1) |-> RemoveAt(RemoveAt(M, r)[i], c)]

RECURSIVE Det(_)
Det(M) ==
    IF Len(M) = 0 THEN 1
    ELSE SumTo([j \in 1..Len(M) |->
                  (IF j % 2 = 1 THEN 1 ELSE -1) * M[1][j] * Det(Minor(M, 1, j))],
               Len(M))

Adjugate(M) ==
    [i \in 1..Len(M) |-> [j \in 1..Len(M) |->
        (IF (i + j) % 2 = 0 THEN 1 ELSE -1) * Det(Minor(M, j, i))]]

\* inverseMatrix.Inverse(originalMatrix): panics on a non-square matrix,
\* returns an error on a singular one, else sets the receiver to the inverse
InversePanics(M) == Rows(M) # Cols(M)

\* variant: only a zero leading entry is taken for singular
InverseFailsOnZeroLeadingEntry(M) == M[1][1] = 0

InverseFails(M) == Det(M) = 0

Inverse(M) == [num |-> Adjugate(M), den |-> Det(M)]

----------------------------------------------------------------------------
(* Results *)

NoVector == [kind |-> "none", dir |-> <<>>]

\* (nil, err)
Failure(err) ==
    [status |-> "error", err |-> err, isNil |-> TRUE,
     Eigenvalue |-> Zero, Eigenvector |-> NoVector, NumIterations |-> 0]

\* the call did not return: a run-time panic (index out of range, gonum shape panic)
Panic(why) ==
    [status |-> "panic", err |-> why, isNil |-> TRUE,
     Eigenvalue |-> Zero, Eigenvector |-> NoVector, NumIterations |-> 0]

\* (&PowerResult{...}, nil)
Success(eigenvalue, eigenvector, numIterations) ==
    [status |-> "ok", err |-> "", isNil |-> FALSE,
     Eigenvalue |-> eigenvalue, Eigenvector |-> eigenvector,
     NumIterations |-> numIterations]

NoResult ==
    [status |-> "none", err |-> "", isNil |-> TRUE,
     Eigenvalue |-> Zero, Eigenvector |-> NoVector, NumIterations |-> 0]

\* what an entry point does before the loop: return an error, panic, or
\* enter innerRegularPower with a matrix
ReturnsError(err) == [outcome |-> "error", err |-> err, matrix |-> [num |-> <<>>, den |-> 1]]

Panics(why) == [outcome |-> "panic", err |-> why, matrix |-> [num |-> <<>>, den |-> 1]]

EntersCore(M) == [outcome |-> "core", err |-> "", matrix |-> M]

----------------------------------------------------------------------------
(* Entry points, up to the call of innerRegularPower *)

\* variant: the empty-matrix test made before the zero-guess test
RegularPowerEntryMatrixFirst(matrix, initialGuess) ==
    IF Len(matrix) = 0 \/ Len(matrix[1]) = 0 THEN ReturnsError("empty matrix")
    ELSE IF all(initialGuess, IsValueZero) THEN ReturnsError("zero initial guess")
    ELSE IF Len(matrix[1]) # Len(initialGuess)
        THEN ReturnsError("matrix and initial guess dimensions do not match")
    ELSE IF constructMatrixPanics(matrix) THEN Panics("index out of range")
    ELSE EntersCore([num |-> constructMatrix(matrix), den |-> 1])

RegularPowerEntry(matrix, initialGuess) ==
    IF all(initialGuess, IsValueZero) THEN ReturnsError("zero initial guess")
    ELSE IF Len(matrix) = 0 \/ Len(matrix[1]) = 0 THEN ReturnsError("empty matrix")
    ELSE IF Len(matrix[1]) # Len(initialGuess)
        THEN ReturnsError("matrix and initial guess dimensions do not match")
    ELSE IF constructMatrixPanics(matrix) THEN Panics("index out of range")
    ELSE EntersCore([num |-> constructMatrix(matrix), den |-> 1])

InversePowerEntry(matrix, initialGuess) ==
    IF constructMatrixPanics(matrix) THEN Panics("constructMatrix")
    ELSE IF InversePanics(constructMatrix(matrix)) THEN Panics("mat: matrix not square")
    ELSE IF InverseFails(constructMatrix(matrix))
        THEN ReturnsError("failed to compute the inverse of the matrix")
    ELSE IF constructVectorPanics(initialGuess) THEN Panics("mat: zero length")
    ELSE EntersCore(Inverse(constructMatrix(matrix)))

FarthestEigenvaluePowerEntry(matrix, initialGuess, scalarToGoFarthest) ==
    IF constructMatrixPanics(matrix) THEN Panics("constructMatrix")
    ELSE IF ShiftPanics(constructMatrix(matrix)) THEN Panics("mat: dimension mismatch")
    ELSE IF constructVectorPanics(initialGuess) THEN Panics("mat: zero length")
    ELSE EntersCore([num |-> ShiftedMatrix(constructMatrix(matrix), scalarToGoFarthest),
                     den |-> 1])

NearestEigenvaluePowerEntry(matrix, initialGuess, scalarToGoNearest) ==
    IF constructMatrixPanics(matrix) THEN Panics("constructMatrix")
    ELSE IF ShiftPanics(constructMatrix(matrix)) THEN Panics("mat: dimension mismatch")
    ELSE LET inner == InversePowerEntry(
                 denseToSliceOfSlices(ShiftedMatrix(constructMatrix(matrix), scalarToGoNearest)),
                 initialGuess)
         IN IF inner.outcome = "error"
            THEN ReturnsError("failed to compute the nearest eigenvalue power method")
            ELSE inner

----------------------------------------------------------------------------
(* innerRegularPower: one pass of the loop body, on matrix M = num/den and  *)
(* the unit vector along u                                                  *)

\* variant: the loop without its normY == 0 guard
NormYNeverZero(M, u) == FALSE

\* normY == 0: Y = M * u/||u|| has zero norm exactly when num * u = 0
NormYIsZero(M, u) == IsZeroVec(MulVecInt(M.num, u))

\* variant: mat.Dot(Y, Y) in place of mat.Dot(Y, bestEigenvector)
PossibleBestEigenvalueDotYY(M, u) ==
    Rat(DotInt(MulVecInt(M.num, u), MulVecInt(M.num, u)), M.den * M.den * DotInt(u, u))

\* mat.Dot(Y, bestEigenvector) = (num*u . u) / (den * u.u)
PossibleBestEigenvalue(M, u) ==
    Rat(DotInt(MulVecInt(M.num, u), u), M.den * DotInt(u, u))

\* bestEigenvector.ScaleVec(1/normY, Y): the unit vector along (num/den) * u
NextEigenvector(M, u) == Normalize(ScaleInt(Sign(M.den), MulVecInt(M.num, u)))

\* math.Abs((possibleBestEigenvalue - bestEigenvalue) / possibleBestEigenvalue)
IterationError(possibleBestEigenvalue, previous) ==
    FAbs(FDiv(FSub(possibleBestEigenvalue, previous), possibleBestEigenvalue))

\* variant: iterationError <= epsilon
StopTestInclusive(iterationError, epsilon) == ~FLess(epsilon, iterationError)

\* iterationError < epsilon
StopTest(iterationError, epsilon) == FLess(iterationError, epsilon)

\* &PowerResult{bestEigenvalue, bestEigenvector.RawVector().Data, currentIteration}
InnerResult ==
    [Eigenvalue |-> bestEigenvalue, Eigenvector |-> bestEigenvector,
     NumIterations |-> currentIteration]

----------------------------------------------------------------------------
(* Entry points, after innerRegularPower returned `inner` *)

RegularPowerReturn(inner) ==
    Success(inner.Eigenvalue, inner.Eigenvector, inner.NumIterations)

\* variant: the core's eigenvalue reported without taking its reciprocal
InversePowerReturnNotInverted(inner) ==
    Success(inner.Eigenvalue, inner.Eigenvector, inner.NumIterations)

InversePowerReturn(inner) ==
    Success(FDiv(FInt(1), inner.Eigenvalue), inner.Eigenvector, inner.NumIterations)

\* extractEigenvectorFromMatrix(A, targetEigenvalue): gonum's mat.Eigen
\* factorization either fails (factorized = FALSE) or gives the column whose
\* eigenvalue is nearest the target; the column is kept symbolic
extractEigenvectorFromMatrix(A, targetEigenvalue, factorized) ==
    IF factorized
    THEN [ok |-> TRUE,
          vector |-> [kind |-> "resolved", dir |-> <<>>, of |-> A,
                      target |-> targetEigenvalue]]
    ELSE [ok |-> FALSE, vector |-> NoVector]

\* variant: the shift is not added back
FarthestEigenvaluePowerReturnNoShift(inner, A, scalarToGoFarthest, factorized) ==
    LET extracted == extractEigenvectorFromMatrix(A, inner.Eigenvalue, factorized)
    IN IF ~extracted.ok
       THEN Failure("failed to extract eigenvector from original matrix")
       ELSE Success(inner.Eigenvalue, extracted.vector, inner.NumIterations)

FarthestEigenvaluePowerReturn(inner, A, scalarToGoFarthest, factorized) ==
    LET farthestEigenvalue == FAdd(inner.Eigenvalue, FInt(scalarToGoFarthest))
        extracted == extractEigenvectorFromMatrix(A, farthestEigenvalue, factorized)
    IN IF ~extracted.ok
       THEN Failure("failed to extract eigenvector from original matrix")
       ELSE Success(farthestEigenvalue, extracted.vector, inner.NumIterations)

\* variant: the shift is added to the core's eigenvalue before the reciprocal
NearestEigenvaluePowerReturnShiftFirst(inner, A, scalarToGoNearest, factorized) ==
    LET nearestEigenvalue ==
            FDiv(FInt(1), FAdd(inner.Eigenvalue, FInt(scalarToGoNearest)))
        extracted == extractEigenvectorFromMatrix(A, nearestEigenvalue, factorized)
    IN IF ~extracted.ok
       THEN Failure("failed to extract eigenvector from original matrix")
       ELSE Success(nearestEigenvalue, extracted.vector, inner.NumIterations)

\* variant: the vector of the shifted iteration is returned as it is
NearestEigenvaluePowerReturnRawVector(inner, A, scalarToGoNearest, factorized) ==
    LET inverse == InversePowerReturn(inner)
        nearestEigenvalue == FAdd(inverse.Eigenvalue, FInt(scalarToGoNearest))
        extracted == extractEigenvectorFromMatrix(A, nearestEigenvalue, factorized)
    IN IF ~extracted.ok
       THEN Failure("failed to extract eigenvector from original matrix")
       ELSE Success(nearestEigenvalue, inverse.Eigenvector, inverse.NumIterations)

NearestEigenvaluePowerReturn(inner, A, scalarToGoNearest, factorized) ==
    LET inverse == InversePowerReturn(inner)
        nearestEigenvalue == FAdd(inverse.Eigenvalue, FInt(scalarToGoNearest))
        extracted == extractEigenvectorFromMatrix(A, nearestEigenvalue, factorized)
    IN IF ~extracted.ok
       THEN Failure("failed to extract eigenvector from original matrix")
       ELSE Success(nearestEigenvalue, extracted.vector, inverse.NumIterations)

----------------------------------------------------------------------------
(* extractEigenvectorFromMatrix, statement by statement.  mat.Eigen is      *)
(* gonum's: its outcome is an input of the model, either a failure or the   *)
(* eigenvalues in the order the library gives them (complex numbers, closed *)
(* under conjugation because the matrix is real).  Column k of              *)
(* eig.VectorsTo is written [column |-> k].                                 *)

MaxEigenvalues == 3

EigenParts == { -1, 0, 2 }

ImaginaryParts == { -1, 0, 1 }

ComplexValues == { <<re, im>> : re \in EigenParts, im \in ImaginaryParts }

Conjugate(z) == <<z[1], -z[2]>>

Occurrences(seq, z) == Cardinality({ k \in 1..Len(seq) : seq[k] = z })

\* what eig.Values(nil) can hold for a real n x n matrix, n = 1..MaxEigenvalues
Decompositions ==
    UNION { { seq \in [1..n -> ComplexValues] :
                \A z \in ComplexValues :
                    Occurrences(seq, z) = Occurrences(seq, Conjugate(z)) } :
            n \in 1..MaxEigenvalues }

Targets == { NaN, <<-1, 1>>, <<1, 2>>, <<1, 1>>, <<3, 1>>, PosInf }

\* real(z)
real(z) == FInt(z[1])

\* math.Abs(real(eigenvalues[i]) - scanTarget), i counted from 0
ScanDiff(values, i, target) == FAbs(FSub(real(values[i + 1]), target))

\* variant: a tie moves bestIndex as well
ScanImprovesOrTies(diff, best) == ~FLess(best, diff)

\* diff < bestDiff
ScanImproves(diff, best) == FLess(diff, best)

NoExtraction == [status |-> "none", column |-> -1]

ResolverInit ==
    /\ rpc = "idle"
    /\ eigenvalues = <<>>
    /\ scanTarget = Zero
    /\ bestIndex = 0
    /\ bestDiff = Zero
    /\ scanIndex = 0
    /\ extraction = NoExtraction

\* eig.Factorize fails: return nil, errors.New("eigenvalue decomposition failed")
FactorizeFails ==
    /\ Idle
    /\ ResolverFrame
    /\ \E target \in Targets :
        /\ scanTarget' = target
        /\ eigenvalues' = <<>>
        /\ rpc' = "done"
        /\ extraction' = [status |-> "error", column |-> -1]
        /\ UNCHANGED <<bestIndex, bestDiff, scanIndex>>

\* eig.Factorize succeeds; bestIndex := 0, bestDiff := |real(eigenvalues[0]) - target|
Factorize ==
    /\ Idle
    /\ ResolverFrame
    /\ \E values \in Decompositions, target \in Targets :
        /\ eigenvalues' = values
        /\ scanTarget' = target
        /\ bestIndex' = 0
        /\ bestDiff' = ScanDiff(values, 0, target)
        /\ scanIndex' = 1
        /\ rpc' = "scan"
        /\ extraction' = NoExtraction

\* one pass of `for i := 1; i < n; i++ { ... }`
Scan ==
    /\ rpc = "scan"
    /\ ResolverFrame
    /\ scanIndex < Len(eigenvalues)
    /\ LET diff == ScanDiff(eigenvalues, scanIndex, scanTarget)
       IN IF ScanImproves(diff, bestDiff)
          THEN bestDiff' = diff /\ bestIndex' = scanIndex
          ELSE UNCHANGED <<bestDiff, bestIndex>>
    /\ scanIndex' = scanIndex + 1
    /\ UNCHANGED <<rpc, eigenvalues, scanTarget, extraction>>

\* the real parts of column bestIndex of eig.VectorsTo are returned
ExtractReturn ==
    /\ rpc = "scan"
    /\ ResolverFrame
    /\ scanIndex >= Len(eigenvalues)
    /\ rpc' = "done"
    /\ extraction' = [status |-> "ok", column |-> bestIndex]
    /\ UNCHANGED <<eigenvalues, scanTarget, bestIndex, bestDiff, scanIndex>>

NextExtraction ==
    /\ rpc = "done"
    /\ ResolverFrame
    /\ rpc' = "idle"
    /\ eigenvalues' = <<>>
    /\ scanTarget' = Zero
    /\ bestIndex' = 0
    /\ bestDiff' = Zero
    /\ scanIndex' = 0
    /\ extraction' = NoExtraction

ResolverNext ==
    \/ FactorizeFails
    \/ Factorize
    \/ Scan
    \/ ExtractReturn
    \/ NextExtraction

----------------------------------------------------------------------------
(* Similarity transformations: *mat.Dense values are matrices of the        *)
(* extended rationals above.  The inputs below keep every math.Sqrt exact   *)
(* (Sqrt has no value otherwise), and every non-zero number of the model is *)
(* larger than 1e-14 in magnitude, so that |x| < 1e-14 is x = 0 here.       *)

FMul(x, y) ==
    IF IsNaN(x) \/ IsNaN(y) THEN NaN
    ELSE IF ~IsFinite(x) \/ ~IsFinite(y)
        THEN (IF x[1] = 0 \/ y[1] = 0 THEN NaN ELSE <<Sign(x[1]) * Sign(y[1]), 0>>)
    ELSE LET g1 == GCD(Abs(x[1]), y[2])
             g2 == GCD(Abs(y[1]), x[2])
         IN Rat((x[1] \div g1) * (y[1] \div g2), (x[2] \div g2) * (y[2] \div g1))

RECURSIVE IntRoot(_, _, _)
\* the integer r in lo..hi with r * r = n, or -1 when there is none
IntRoot(n, lo, hi) ==
    LET mid == (lo + hi) \div 2
    IN IF lo > hi THEN -1
       ELSE IF mid * mid = n THEN mid
       ELSE IF mid * mid < n THEN IntRoot(n, mid + 1, hi)
       ELSE IntRoot(n, lo, mid - 1)

\* where the search for the root of n ends: no larger integer has a square
\* that is an integer of the model
RootBound(n) == IF n < 46340 THEN n ELSE 46340

\* x is the square of a rational number
HasExactRoot(x) ==
    /\ IsFinite(x)
    /\ x[1] >= 0
    /\ IntRoot(x[1], 0, RootBound(x[1])) # -1
    /\ IntRoot(x[2], 0, RootBound(x[2])) # -1

\* math.Sqrt, defined where the root is rational
Sqrt(x) ==
    IF IsNaN(x) \/ x[1] < 0 THEN NaN
    ELSE IF ~IsFinite(x) THEN x
    ELSE IF HasExactRoot(x)
        THEN <<IntRoot(x[1], 0, RootBound(x[1])), IntRoot(x[2], 0, RootBound(x[2]))>>
    ELSE CHOOSE r \in {} : TRUE

RECURSIVE FSum(_, _)
FSum(f, n) == IF n = 0 THEN Zero ELSE FAdd(FSum(f, n - 1), f[n])

\* the *mat.Dense that holds the float64 values of an integer matrix
Dense(m) == [i \in 1..Len(m) |-> [j \in 1..Len(m[i]) |-> FInt(m[i][j])]]

generateIdentityMatrix(size) ==
    [i \in 1..size |-> [j \in 1..size |-> IF i = j THEN FInt(1) ELSE Zero]]

\* mat.Dense.Mul
Mul(a, b) ==
    [i \in 1..Len(a) |-> [j \in 1..Len(b[1]) |->
        FSum([k \in 1..Len(b) |-> FMul(a[i][k], b[k][j])], Len(b))]]

\* mat.Dense.T
Transpose(a) == [j \in 1..Len(a[1]) |-> [i \in 1..Len(a) |-> a[i][j]]]

\* mat.VecDense.Norm(2)
Norm(v) == Sqrt(FSum([k \in 1..Len(v) |-> FMul(v[k], v[k])], Len(v)))

\* variant: the test never succeeds
BelowThresholdNever(x) == FALSE

\* |x| < 1e-14
BelowThreshold(x) == x = Zero

\* variant: the reflector built from w itself, without the sign * wNorm term
HouseholderVectorUnshifted(w, j, wNorm) == w

\* v = w with sign(w[j+1]) * wNorm added at index j+1 (indices from 0)
HouseholderVector(w, j, wNorm) ==
    LET sign == IF FLess(w[j + 2], Zero) THEN FInt(-1) ELSE FInt(1)
    IN [k \in 1..Len(w) |->
          IF k = j + 2 THEN FAdd(w[k], FMul(sign, wNorm)) ELSE w[k]]

\* variant: H = I - v*v^T, the projection along v
ReflectorProjecting(v, vNormSquared) ==
    [i \in 1..Len(v) |-> [k \in 1..Len(v) |->
        FSub(generateIdentityMatrix(Len(v))[i][k], FDiv(FMul(v[i], v[k]), vNormSquared))]]

\* H = I - 2*v*v^T for the scaled v: `vvT.Scale(2.0, vvT)`, then
\* `householderMatrix.Sub(householderMatrix, vvT)`
Reflector(v, vNormSquared) ==
    [i \in 1..Len(v) |-> [k \in 1..Len(v) |->
        FSub(generateIdentityMatrix(Len(v))[i][k],
             FMul(FInt(2), FDiv(FMul(v[i], v[k]), vNormSquared)))]]

\* householderSimetricMatrix(A, j), j counted from 0.  v is scaled by
\* 1/vNorm and H = I - 2*v*v^T: entry (i,k) of v*v^T is v[i]*v[k]/vNorm^2
householderSimetricMatrix(A, j) ==
    LET n == Len(A)
        w == [k \in 1..n |-> IF k > j + 1 THEN A[k][j + 1] ELSE Zero]
        wNorm == Norm(w)
        v == HouseholderVector(w, j, wNorm)
        vNormSquared == FSum([k \in 1..n |-> FMul(v[k], v[k])], n)
    IN IF BelowThreshold(wNorm) THEN generateIdentityMatrix(n)
       \* vNorm < 1e-14, vNorm being the root of vNormSquared
       ELSE IF BelowThreshold(vNormSquared) THEN generateIdentityMatrix(n)
       ELSE Reflector(v, vNormSquared)

\* variant: every sub-diagonal entry must be zero, whatever the tolerance
isConvergedExactly(A, tolerance) ==
    \A i \in 1..(Len(A) - 1) : A[i + 1][i] = Zero

\* math.Abs(A.At(i+1, i)) > tolerance for no i
isConverged(A, tolerance) ==
    \A i \in 1..(Len(A) - 1) : ~FLess(tolerance, FAbs(A[i + 1][i]))

\* variant: the shift is always the last diagonal entry
wilkinsonShiftLastEntry(A) == IF Len(A) < 2 THEN Zero ELSE A[Len(A)][Len(A)]

wilkinsonShift(A) ==
    LET n == Len(A)
        a == A[n - 1][n - 1]
        b == A[n - 1][n]
        c == A[n][n - 1]
        d == A[n][n]
        trace == FAdd(a, d)
        det == FSub(FMul(a, d), FMul(b, c))
        discriminant == FSub(FMul(trace, trace), FMul(FInt(4), det))
        sqrt_discriminant == Sqrt(discriminant)
        lambda1 == FDiv(FAdd(trace, sqrt_discriminant), FInt(2))
        lambda2 == FDiv(FSub(trace, sqrt_discriminant), FInt(2))
    IN IF n < 2 THEN Zero
       ELSE IF FLess(discriminant, Zero) THEN d
       ELSE IF FLess(FAbs(FSub(d, lambda1)), FAbs(FSub(d, lambda2))) THEN lambda1
       ELSE lambda2

\* givensRotation(a, b) = <<c, s>>
givensRotation(a, b) ==
    IF BelowThreshold(b) THEN <<FInt(1), Zero>>
    ELSE IF FLess(FAbs(a), FAbs(b))
    THEN LET t == FDiv(a, b)
             root == FDiv(FInt(1), Sqrt(FAdd(FInt(1), FMul(t, t))))
             s == IF FLess(b, Zero) THEN FNeg(root) ELSE root
         IN <<FMul(s, t), s>>
    ELSE LET t == FDiv(b, a)
             root == FDiv(FInt(1), Sqrt(FAdd(FInt(1), FMul(t, t))))
             c == IF FLess(a, Zero) THEN FNeg(root) ELSE root
         IN <<c, FMul(c, t)>>

\* rows i and j of M replaced by c*row_i + s*row_j and -s*row_i + c*row_j
applyGivensRotationLeft(M, i, j, c, s) ==
    [r \in 1..Len(M) |-> [k \in 1..Len(M[r]) |->
        IF r = i THEN FAdd(FMul(c, M[i][k]), FMul(s, M[j][k]))
        ELSE IF r = j THEN FAdd(FMul(FNeg(s), M[i][k]), FMul(c, M[j][k]))
        ELSE M[r][k]]]

\* variant: the columns are combined with the rotation's transpose
applyGivensRotationRightTransposed(M, i, j, c, s) ==
    [k \in 1..Len(M) |-> [r \in 1..Len(M[k]) |->
        IF r = i THEN FSub(FMul(c, M[k][i]), FMul(s, M[k][j]))
        ELSE IF r = j THEN FAdd(FMul(s, M[k][i]), FMul(c, M[k][j]))
        ELSE M[k][r]]]

\* columns i and j of M replaced by c*col_i + s*col_j and -s*col_i + c*col_j
applyGivensRotationRight(M, i, j, c, s) ==
    [k \in 1..Len(M) |-> [r \in 1..Len(M[k]) |->
        IF r = i THEN FAdd(FMul(c, M[k][i]), FMul(s, M[k][j]))
        ELSE IF r = j THEN FAdd(FMul(FNeg(s), M[k][i]), FMul(c, M[k][j]))
        ELSE M[k][r]]]

RECURSIVE GivensSweep(_, _, _)
\* passes i, i+1, ... of qrDecompositionGivens's loop (i counted from 1 here)
GivensSweep(Q, R, i) ==
    IF i > Len(R) - 1 THEN [Q |-> Q, R |-> R]
    ELSE IF ~BelowThreshold(R[i + 1][i])
    THEN LET cs == givensRotation(R[i][i], R[i + 1][i])
         IN GivensSweep(applyGivensRotationRight(Q, i, i + 1, cs[1], cs[2]),
                        applyGivensRotationLeft(R, i, i + 1, cs[1], cs[2]),
                        i + 1)
    ELSE GivensSweep(Q, R, i + 1)

qrDecompositionGivens(A) == GivensSweep(generateIdentityMatrix(Len(A)), A, 1)

\* A.Set(i, i, A.At(i, i) + delta) for every i
ShiftDiagonal(A, delta) ==
    [i \in 1..Len(A) |-> [j \in 1..Len(A[i]) |->
        IF i = j THEN FAdd(A[i][j], delta) ELSE A[i][j]]]

\* variant: the rotations are not accumulated into V
QRStepWithoutAccumulation(A, V) ==
    LET shift == wilkinsonShift(A)
        qr == qrDecompositionGivens(ShiftDiagonal(A, FNeg(shift)))
    IN [A |-> ShiftDiagonal(Mul(qr.R, qr.Q), shift), V |-> V]

\* one pass of QRMethod's loop after the convergence test: the new A and V
QRStep(A, V) ==
    LET shift == wilkinsonShift(A)
        qr == qrDecompositionGivens(ShiftDiagonal(A, FNeg(shift)))
    IN [A |-> ShiftDiagonal(Mul(qr.R, qr.Q), shift), V |-> Mul(V, qr.Q)]

\* eigenvalues[i] = A.At(i, i)
Diagonal(A) == [i \in 1..Len(A) |-> A[i][i]]

\* variant: the reflector is applied on the left only
SimilarityStepOneSided(H, A) == Mul(Transpose(H), A)

\* aStepI = H^T * A * H
SimilarityStep(H, A) == Mul(Mul(Transpose(H), A), H)

\* the inputs on which the model can follow the code: every radicand met by
\* householderSimetricMatrix, wilkinsonShift and givensRotation is a square
RECURSIVE HouseholderIsExact(_, _)
HouseholderIsExact(A, j) ==
    IF j >= Len(A) - 2 THEN TRUE
    ELSE LET squares == [k \in 1..Len(A) |->
                           IF k > j + 1 THEN FMul(A[k][j + 1], A[k][j + 1]) ELSE Zero]
             H == householderSimetricMatrix(A, j)
         IN /\ HasExactRoot(FSum(squares, Len(A)))
            /\ HouseholderIsExact(SimilarityStep(H, A), j + 1)

ShiftIsExact(A) ==
    LET n == Len(A)
        trace == FAdd(A[n - 1][n - 1], A[n][n])
        det == FSub(FMul(A[n - 1][n - 1], A[n][n]), FMul(A[n - 1][n], A[n][n - 1]))
        discriminant == FSub(FMul(trace, trace), FMul(FInt(4), det))
    IN IF n < 2 THEN TRUE
       ELSE IF FLess(discriminant, Zero) THEN TRUE
       ELSE HasExactRoot(discriminant)

RECURSIVE SweepIsExact(_, _)
SweepIsExact(R, i) ==
    IF i > Len(R) - 1 THEN TRUE
    ELSE IF BelowThreshold(R[i + 1][i]) THEN SweepIsExact(R, i + 1)
    ELSE LET a == R[i][i]
             b == R[i + 1][i]
             t == IF FLess(FAbs(a), FAbs(b)) THEN FDiv(a, b) ELSE FDiv(b, a)
             cs == givensRotation(a, b)
         IN /\ HasExactRoot(FAdd(FInt(1), FMul(t, t)))
            /\ SweepIsExact(applyGivensRotationLeft(R, i, i + 1, cs[1], cs[2]), i + 1)

RECURSIVE RunIsExact(_, _, _)
RunIsExact(A, maxIterations, tolerance) ==
    IF maxIterations <= 0 \/ isConverged(A, tolerance) THEN TRUE
    ELSE IF ~ShiftIsExact(A) THEN FALSE
    ELSE IF ~SweepIsExact(ShiftDiagonal(A, FNeg(wilkinsonShift(A))), 1) THEN FALSE
    ELSE RunIsExact(QRStep(A, generateIdentityMatrix(Len(A))).A,
                    maxIterations - 1, tolerance)

----------------------------------------------------------------------------
(* HouseholderMethod and QRMethod as a state machine.  Every matrix lives   *)
(* in a named buffer; a *mat.Dense or a [][]float64 is the name of its      *)
(* buffer, so that two names for one buffer share its contents.             *)

MaxQRIter == 2

Buffers == {"matrix", "aMinus1", "householderMatrix", "callerT", "callerQ", "A", "V"}

EmptyMemory == [b \in Buffers |-> <<>>]

DiagonalMatrix(d) ==
    [i \in 1..Len(d) |-> [j \in 1..Len(d) |-> IF i = j THEN d[i] ELSE 0]]

\* mat.NewDiagDense(n, d) as a dense matrix
DenseDiagonal(d) ==
    [i \in 1..Len(d) |-> [j \in 1..Len(d) |-> IF i = j THEN d[i] ELSE Zero]]

\* symmetric matrices a caller passes to HouseholderMethod
SymmetricCandidates ==
    { <<<<2>>>>,
      <<<<2, 0>>, <<0, 3>>>>,
      <<<<0, 12>>, <<12, 7>>>>,
      DiagonalMatrix(<<5, 3, 1>>),
      DiagonalMatrix(<<3, 2, -1, 5>>),
      <<<<5, 0, 0>>, <<0, 0, 12>>, <<0, 12, 7>>>>,
      <<<<0, 1, 0>>, <<1, 0, 0>>, <<0, 0, 0>>>>,
      <<<<2, -1, 0>>, <<-1, 2, -1>>, <<0, -1, 2>>>>,
      <<<<-4, -4, -3>>, <<-4, -4, 0>>, <<-3, 0, -4>>>>,
      <<<<-4, -3, 0>>, <<-3, -3, 0>>, <<0, 0, 0>>>>,
      <<<<-4, 0, 3>>, <<0, 0, 0>>, <<3, 0, -2>>>>,
      <<<<2, 3, 4>>, <<3, -1, 1>>, <<4, 1, 2>>>>,
      <<<<2, 0, 3>>, <<0, -1, 0>>, <<3, 0, 2>>>>,
      <<<<1, 4, -3>>, <<4, 2, 0>>, <<-3, 0, 3>>>>,
      <<<<2, 1, 2, 2>>, <<1, -1, -1, 0>>, <<2, -1, 0, -1>>, <<2, 0, -1, 1>>>>,
      <<<<2, 2, 2, 1>>, <<2, -1, 0, 0>>, <<2, 0, 0, 0>>, <<1, 0, 0, 1>>>>,
      <<<<1, 0, 0, 0>>, <<0, 2, 3, 4>>, <<0, 3, -1, 1>>, <<0, 4, 1, 2>>>> }

SymmetricMatrices ==
    { matrix \in SymmetricCandidates : HouseholderIsExact(Dense(constructMatrix(matrix)), 0) }

\* matrices a caller passes to QRMethod directly: diagonal, symmetric
\* tridiagonal, not symmetric, and with a small sub-diagonal entry
TridiagonalMatrices ==
    { Dense(<<<<2>>>>),
      Dense(<<<<2, 0>>, <<0, 3>>>>),
      Dense(<<<<0, 12>>, <<12, 7>>>>),
      Dense(<<<<-4, -4>>, <<1, -4>>>>),
      <<<<Rat(1, 3), Rat(4, 15)>>, <<Rat(1, 4), Rat(1, 5)>>>>,
      Dense(DiagonalMatrix(<<5, 3, 1>>)),
      Dense(<<<<5, 0, 0>>, <<0, 0, 12>>, <<0, 12, 7>>>>),
      Dense(<<<<0, 1, 0>>, <<1, 0, 0>>, <<0, 0, 0>>>>) }

\* accumulated matrices a caller passes with them: the identity and the
\* exchange matrix
ReverseIdentity(n) ==
    [i \in 1..n |-> [j \in 1..n |-> IF i + j = n + 1 THEN FInt(1) ELSE Zero]]

AccumulatedMatrices(n) == {generateIdentityMatrix(n), ReverseIdentity(n)}

\* maxIterations, a negative one included
Budgets == (-1)..MaxQRIter

Tolerances == {Rat(1, 10), Rat(1, 2)}

NoSimilarityCall ==
    [op |-> "none", origin |-> "none", tridiagonalMatrix |-> "none",
     householderMatrix |-> "none", maxIterations |-> 0, tolerance |-> Zero]

NoHouseholderResult ==
    [status |-> "none", HouseholderMatrix |-> "none", TriangulizedMatrix |-> "none"]

NoQRResult == [status |-> "none", Eigenvalues |-> <<>>, Eigenvectors |-> "none"]

\* variant: A := tridiagonalMatrix, the working matrix is the caller's
WorkingMatrixShared(args) == args.tridiagonalMatrix

\* A := mat.NewDense(n, n, nil)
WorkingMatrix(args) == "A"

\* V := mat.NewDense(n, n, nil)
AccumulatorMatrix(args) == "V"

\* variant: an exhausted budget is reported as an error
QRMethodReturnFailsWhenExhausted(diagonal, V, exhausted) ==
    IF exhausted THEN [status |-> "error", Eigenvalues |-> <<>>, Eigenvectors |-> "none"]
    ELSE [status |-> "ok", Eigenvalues |-> diagonal, Eigenvectors |-> V]

\* return &QRMethodResult{Eigenvalues: eigenvalues, Eigenvectors: V}, nil
QRMethodReturn(diagonal, V, exhausted) ==
    [status |-> "ok", Eigenvalues |-> diagonal, Eigenvectors |-> V]

\* the buffers the caller of the call in progress owns
CallerOwned(args) ==
    IF args.op = "HouseholderMethod" THEN {"matrix"}
    ELSE IF args.op = "QRMethod"
    THEN {"matrix", args.tridiagonalMatrix, args.householderMatrix}
    ELSE {}

SimilarityIdle == spc = "idle"

SimilarityInit ==
    /\ spc = "idle"
    /\ memory = EmptyMemory
    /\ sargs = NoSimilarityCall
    /\ given = EmptyMemory
    /\ pivot = 0
    /\ reflector = <<>>
    /\ iter = 0
    /\ exit = "none"
    /\ hresult = NoHouseholderResult
    /\ qresult = NoQRResult
    /\ earlier = NoQRResult

\* HouseholderMethod up to its loop: householderMatrix := identity,
\* aMinus1 := a copy of constructMatrix(matrix)
CallHouseholderMethod ==
    /\ Idle
    /\ SimilarityFrame
    /\ \E matrix \in SymmetricMatrices :
        LET n == Len(matrix)
            held == [EmptyMemory EXCEPT !["matrix"] = matrix]
        IN /\ given' = held
           /\ memory' = [held EXCEPT !["householderMatrix"] = generateIdentityMatrix(n),
                                     !["aMinus1"] = Dense(constructMatrix(matrix))]
    /\ sargs' = [NoSimilarityCall EXCEPT !.op = "HouseholderMethod", !.origin = "direct"]
    /\ spc' = "householder"
    /\ pivot' = 0
    /\ reflector' = <<>>
    /\ UNCHANGED <<iter, exit, hresult, qresult, earlier>>

\* one pass of `for i := 0; i < n-2; i++ { ... }`
HouseholderStep ==
    /\ spc = "householder"
    /\ SimilarityFrame
    /\ pivot < Len(memory["matrix"]) - 2
    /\ LET householderMatrixI == householderSimetricMatrix(memory["aMinus1"], pivot)
           aStepI == SimilarityStep(householderMatrixI, memory["aMinus1"])
           temp == Mul(memory["householderMatrix"], householderMatrixI)
       IN /\ reflector' = householderMatrixI
          /\ memory' = [memory EXCEPT !["aMinus1"] = aStepI,
                                      !["householderMatrix"] = temp]
    /\ pivot' = pivot + 1
    /\ UNCHANGED <<spc, sargs, given, iter, exit, hresult, qresult, earlier>>

\* return &HouseholderMethodResult{householderMatrix, aMinus1}, nil
HouseholderReturn ==
    /\ spc = "householder"
    /\ SimilarityFrame
    /\ pivot >= Len(memory["matrix"]) - 2
    /\ spc' = "hdone"
    /\ hresult' = [status |-> "ok", HouseholderMatrix |-> "householderMatrix",
                   TriangulizedMatrix |-> "aMinus1"]
    /\ UNCHANGED <<memory, sargs, given, pivot, reflector, iter, exit, qresult, earlier>>

\* QRMethod up to its loop: A and V are copies of the two arguments
QREntry(held, args) ==
    /\ sargs' = args
    /\ given' = held
    /\ memory' = [b \in Buffers |->
                    IF b = WorkingMatrix(args) THEN held[args.tridiagonalMatrix]
                    ELSE IF b = AccumulatorMatrix(args) THEN held[args.householderMatrix]
                    ELSE held[b]]
    /\ spc' = "qr"
    /\ iter' = 0
    /\ exit' = "none"
    /\ qresult' = NoQRResult

\* QRMethod called on matrices of the caller's own
CallQRMethod ==
    /\ Idle
    /\ SimilarityFrame
    /\ \E tridiagonalMatrix \in TridiagonalMatrices, maxIterations \in Budgets,
          tolerance \in Tolerances :
        \E householderMatrix \in AccumulatedMatrices(Len(tridiagonalMatrix)) :
            /\ RunIsExact(tridiagonalMatrix, maxIterations, tolerance)
            /\ QREntry([EmptyMemory EXCEPT !["callerT"] = tridiagonalMatrix,
                                           !["callerQ"] = householderMatrix],
                       [op |-> "QRMethod", origin |-> "direct",
                        tridiagonalMatrix |-> "callerT", householderMatrix |-> "callerQ",
                        maxIterations |-> maxIterations, tolerance |-> tolerance])
    /\ UNCHANGED <<pivot, reflector, hresult, earlier>>

\* QRMethod called on what HouseholderMethod returned
CallQRMethodOnHouseholderResult ==
    /\ spc = "hdone"
    /\ SimilarityFrame
    /\ \E maxIterations \in Budgets, tolerance \in Tolerances :
        /\ RunIsExact(memory[hresult.TriangulizedMatrix], maxIterations, tolerance)
        /\ QREntry(memory,
                   [op |-> "QRMethod", origin |-> "householder",
                    tridiagonalMatrix |-> hresult.TriangulizedMatrix,
                    householderMatrix |-> hresult.HouseholderMatrix,
                    maxIterations |-> maxIterations, tolerance |-> tolerance])
    /\ UNCHANGED <<pivot, reflector, hresult, earlier>>

\* QRMethod called again on the converged output of the call that returned:
\* the matrix it ended with (or the diagonal matrix of its eigenvalues) and
\* its eigenvector matrix
CallQRMethodAgain ==
    /\ spc = "qdone"
    /\ SimilarityFrame
    /\ sargs.origin # "again"
    /\ isConverged(memory[WorkingMatrix(sargs)], sargs.tolerance)
    /\ \E tridiagonalMatrix \in {memory[WorkingMatrix(sargs)],
                                 DenseDiagonal(qresult.Eigenvalues)} :
        QREntry([memory EXCEPT !["callerT"] = tridiagonalMatrix,
                               !["callerQ"] = memory[qresult.Eigenvectors]],
                [sargs EXCEPT !.origin = "again", !.tridiagonalMatrix = "callerT",
                              !.householderMatrix = "callerQ"])
    /\ earlier' = [qresult EXCEPT !.Eigenvectors = memory[qresult.Eigenvectors]]
    /\ UNCHANGED <<pivot, reflector, hresult>>

\* `if isConverged(A, tolerance) { break }`
QRBreak ==
    /\ spc = "qr"
    /\ SimilarityFrame
    /\ exit = "none"
    /\ iter < sargs.maxIterations
    /\ isConverged(memory[WorkingMatrix(sargs)], sargs.tolerance)
    /\ exit' = "converged"
    /\ UNCHANGED <<spc, memory, sargs, given, pivot, reflector, iter, hresult, qresult,
                   earlier>>

\* one pass of `for iter := 0; iter < maxIterations; iter++ { ... }` that
\* does not break
QRIterate ==
    /\ spc = "qr"
    /\ SimilarityFrame
    /\ exit = "none"
    /\ iter < sargs.maxIterations
    /\ ~isConverged(memory[WorkingMatrix(sargs)], sargs.tolerance)
    /\ LET next == QRStep(memory[WorkingMatrix(sargs)], memory[AccumulatorMatrix(sargs)])
       IN memory' = [b \in Buffers |->
                       IF b = WorkingMatrix(sargs) THEN next.A
                       ELSE IF b = AccumulatorMatrix(sargs) THEN next.V
                       ELSE memory[b]]
    /\ iter' = iter + 1
    /\ UNCHANGED <<spc, sargs, given, pivot, reflector, exit, hresult, qresult, earlier>>

\* return &QRMethodResult{eigenvalues, V}, nil
QRReturn ==
    /\ spc = "qr"
    /\ SimilarityFrame
    /\ exit = "converged" \/ iter >= sargs.maxIterations
    /\ spc' = "qdone"
    /\ exit' = IF exit = "none" THEN "budget" ELSE exit
    /\ qresult' = QRMethodReturn(Diagonal(memory[WorkingMatrix(sargs)]),
                                  AccumulatorMatrix(sargs), exit = "none")
    /\ UNCHANGED <<memory, sargs, given, pivot, reflector, iter, hresult, earlier>>

\* the caller drops the results and is free to make the next call
NextSimilarityCall ==
    /\ spc \in {"hdone", "qdone"}
    /\ SimilarityFrame
    /\ spc' = "idle"
    /\ memory' = EmptyMemory
    /\ sargs' = NoSimilarityCall
    /\ given' = EmptyMemory
    /\ pivot' = 0
    /\ reflector' = <<>>
    /\ iter' = 0
    /\ exit' = "none"
    /\ hresult' = NoHouseholderResult
    /\ qresult' = NoQRResult
    /\ earlier' = NoQRResult

SimilarityNext ==
    \/ CallHouseholderMethod
    \/ HouseholderStep
    \/ HouseholderReturn
    \/ CallQRMethod
    \/ CallQRMethodOnHouseholderResult
    \/ CallQRMethodAgain
    \/ QRBreak
    \/ QRIterate
    \/ QRReturn
    \/ NextSimilarityCall

----------------------------------------------------------------------------
(* The power use case as a state machine, and the specifications *)

NoCall ==
    [op |-> "none", matrix |-> <<>>, initialGuess |-> <<>>, shift |-> 0,
     epsilon |-> Zero, maxNumberOfIterations |-> 0, factorized |-> TRUE]

NoMatrix == [num |-> <<>>, den |-> 1]

\* the contents of a []float64 the caller filled with `values`
Slice(values) == [kind |-> "values", dir |-> values]

NothingOwned == [matrix |-> <<>>, initialGuess |-> Slice(<<>>), returned |-> "none"]

\* variant: bestEigenvector := initialGuess, the iterate lives in the
\* caller's slice
BestEigenvectorBufferShared == "initialGuess"

\* bestEigenvector := mat.NewVecDense(initialGuess.Len(), nil)
BestEigenvectorBuffer == "bestEigenvector"

\* the caller's slice after bestEigenvector.ScaleVec wrote `written`
AfterScaleVec(slice, written) ==
    IF BestEigenvectorBuffer = "initialGuess" THEN written ELSE slice

\* the buffer behind the Eigenvector field of `returned`:
\* bestEigenvector.RawVector().Data, or the slice made by
\* extractEigenvectorFromMatrix
EigenvectorBuffer(returned) ==
    IF returned.status # "ok" THEN "none"
    ELSE IF returned.Eigenvector.kind = "resolved" THEN "eigenvector"
    ELSE BestEigenvectorBuffer

----------------------------------------------------------------------------
(* Two goroutines calling RegularPower through one *PowerUseCase, with no   *)
(* synchronization.  A step of a goroutine is one access to a vector that   *)
(* another goroutine could reach if it were shared: Y.MulVec writes Y, the  *)
(* rest of the loop body reads it.  PowerUseCase is struct{}: the use-case  *)
(* value has no field, so the only state of a call is its own locals.       *)

Threads == {1, 2}

MaxConcurrentIter == 2

ConcurrentMatrices ==
    { <<<<2, 1>>, <<1, 2>>>>, <<<<2, 3>>, <<0, -1>>>>, <<<<0, 1>>, <<0, 0>>>> }

ConcurrentGuesses == { <<1, 0>>, <<1, 1>>, <<0, 0>>, <<2>> }

ConcurrentEpsilon == Rat(1, 10)

\* variant: one Y vector kept in the use-case value and used by every call
YBufferOfUseCase(thread) == 0

\* Y := mat.NewVecDense(initialGuess.Len(), nil), one per call
YBuffer(thread) == thread

NoLocals ==
    [matrix |-> NoMatrix, bestEigenvector |-> NoVector, bestEigenvalue |-> Zero,
     currentError |-> PosInf, currentIteration |-> 0, stop |-> "none"]

ConcurrentInit ==
    /\ tpc = [thread \in Threads |-> "idle"]
    /\ tcall = [thread \in Threads |-> NoCall]
    /\ tlocal = [thread \in Threads |-> NoLocals]
    /\ scratch = [buffer \in {0} \cup Threads |-> <<>>]
    /\ tresult = [thread \in Threads |-> NoResult]

\* mat.Dot(Y, bestEigenvector) for Y = product/den and the unit vector along u
DotWithProduct(product, den, u) == Rat(DotInt(product, u), den * DotInt(u, u))

\* bestEigenvector.ScaleVec(1/normY, Y) for Y = product/den
UnitAlongProduct(product, den) == Normalize(ScaleInt(Sign(den), product))

\* RegularPower up to the loop's first test, or to its early return
StartRegularPower(thread) ==
    /\ tpc[thread] = "idle"
    /\ ConcurrentFrame
    /\ \E matrix \in ConcurrentMatrices, initialGuess \in ConcurrentGuesses,
          maxNumberOfIterations \in 0..MaxConcurrentIter :
        LET entry == RegularPowerEntry(matrix, initialGuess)
            args == [op |-> "RegularPower", matrix |-> matrix,
                     initialGuess |-> initialGuess, shift |-> 0,
                     epsilon |-> ConcurrentEpsilon,
                     maxNumberOfIterations |-> maxNumberOfIterations,
                     factorized |-> TRUE]
        IN /\ tcall' = [tcall EXCEPT ![thread] = args]
           /\ IF entry.outcome = "core"
              THEN /\ tpc' = [tpc EXCEPT ![thread] = "loop"]
                   /\ tlocal' = [tlocal EXCEPT ![thread] =
                                   [NoLocals EXCEPT !.matrix = entry.matrix,
                                                    !.bestEigenvector =
                                                        Normalize(initialGuess)]]
                   /\ tresult' = [tresult EXCEPT ![thread] = NoResult]
              ELSE /\ tpc' = [tpc EXCEPT ![thread] = "done"]
                   /\ tlocal' = [tlocal EXCEPT ![thread] = NoLocals]
                   /\ tresult' = [tresult EXCEPT ![thread] =
                                    IF entry.outcome = "error" THEN Failure(entry.err)
                                                               ELSE Panic(entry.err)]
    /\ scratch' = [scratch EXCEPT ![thread] = <<>>]

\* currentIteration++ and Y.MulVec(matrix, bestEigenvector)
MulVecStep(thread) ==
    /\ tpc[thread] = "loop"
    /\ ConcurrentFrame
    /\ tlocal[thread].stop = "none"
    /\ tlocal[thread].currentIteration < tcall[thread].maxNumberOfIterations
    /\ tpc' = [tpc EXCEPT ![thread] = "product"]
    /\ tlocal' = [tlocal EXCEPT ![thread].currentIteration = @ + 1]
    /\ scratch' = [scratch EXCEPT ![YBuffer(thread)] =
                     MulVecInt(tlocal[thread].matrix.num,
                               tlocal[thread].bestEigenvector.dir)]
    /\ UNCHANGED <<tcall, tresult>>

\* the rest of the loop body, which reads Y
UpdateStep(thread) ==
    /\ tpc[thread] = "product"
    /\ ConcurrentFrame
    /\ tpc' = [tpc EXCEPT ![thread] = "loop"]
    /\ LET Y == scratch[YBuffer(thread)]
           mine == tlocal[thread]
           possibleBestEigenvalue ==
               DotWithProduct(Y, mine.matrix.den, mine.bestEigenvector.dir)
           iterationError == IterationError(possibleBestEigenvalue, mine.bestEigenvalue)
       IN IF IsZeroVec(Y)
          THEN tlocal' = [tlocal EXCEPT ![thread].stop = "zeroNorm"]
          ELSE tlocal' = [tlocal EXCEPT ![thread] =
                   [mine EXCEPT !.bestEigenvector = UnitAlongProduct(Y, mine.matrix.den),
                                !.currentError = iterationError,
                                !.bestEigenvalue = possibleBestEigenvalue,
                                !.stop = IF StopTest(iterationError,
                                                     tcall[thread].epsilon)
                                         THEN "converged" ELSE "none"]]
    /\ UNCHANGED <<tcall, scratch, tresult>>

\* the loop is left and RegularPower returns
ReturnStep(thread) ==
    /\ tpc[thread] = "loop"
    /\ ConcurrentFrame
    /\ \/ tlocal[thread].stop # "none"
       \/ tlocal[thread].currentIteration >= tcall[thread].maxNumberOfIterations
    /\ tpc' = [tpc EXCEPT ![thread] = "done"]
    /\ tresult' = [tresult EXCEPT ![thread] =
                     RegularPowerReturn([Eigenvalue |-> tlocal[thread].bestEigenvalue,
                                         Eigenvector |-> tlocal[thread].bestEigenvector,
                                         NumIterations |->
                                             tlocal[thread].currentIteration])]
    /\ UNCHANGED <<tcall, tlocal, scratch>>

\* the goroutine is free to make its next call
NextConcurrentCall(thread) ==
    /\ tpc[thread] = "done"
    /\ ConcurrentFrame
    /\ tpc' = [tpc EXCEPT ![thread] = "idle"]
    /\ tcall' = [tcall EXCEPT ![thread] = NoCall]
    /\ tlocal' = [tlocal EXCEPT ![thread] = NoLocals]
    /\ tresult' = [tresult EXCEPT ![thread] = NoResult]
    /\ scratch' = [scratch EXCEPT ![thread] = <<>>]

ConcurrentNext ==
    \E thread \in Threads :
        \/ StartRegularPower(thread)
        \/ MulVecStep(thread)
        \/ UpdateStep(thread)
        \/ ReturnStep(thread)
        \/ NextConcurrentCall(thread)

----------------------------------------------------------------------------
(* QRMethod's helpers wilkinsonShift, givensRotation and                    *)
(* qrDecompositionGivens called on their own, the last one pass by pass     *)

ShiftValues == {-1, 0, 1, 2}

\* the matrices handed to wilkinsonShift: 1 x 1, every 2 x 2 block over
\* ShiftValues whose discriminant has a rational root or is negative, and
\* 3 x 3 matrices ending in such a block
ShiftBlocks ==
    { B \in { Dense(<<<<a, b>>, <<c, d>>>>) : a \in ShiftValues, b \in ShiftValues,
                                              c \in ShiftValues, d \in ShiftValues } :
        ShiftIsExact(B) }

ShiftInputs ==
    {Dense(<<<<2>>>>), Dense(<<<<-1>>>>)}
        \cup ShiftBlocks
        \cup { <<<<FInt(2), FInt(1), Zero>>,
                 <<FInt(1), B[1][1], B[1][2]>>,
                 <<Zero, B[2][1], B[2][2]>>>> :
               B \in { C \in ShiftBlocks : C[1][1] = FInt(2) } }

RotationValues == {-12, -4, -3, 0, 3, 4, 5, 12}

\* the pairs handed to givensRotation whose root is rational
RotationInputs ==
    { ab \in { <<FInt(a), FInt(b)>> : a \in RotationValues, b \in RotationValues } :
        LET t == IF FLess(FAbs(ab[1]), FAbs(ab[2])) THEN FDiv(ab[1], ab[2])
                 ELSE FDiv(ab[2], ab[1])
        IN BelowThreshold(ab[2]) \/ HasExactRoot(FAdd(FInt(1), FMul(t, t))) }

\* the matrices handed to qrDecompositionGivens: tridiagonal, with and
\* without zero sub-diagonal entries, symmetric and not
SweepCandidates ==
    { <<<<2>>>>,
      <<<<2, 0>>, <<0, 3>>>>,
      <<<<3, 1>>, <<4, 2>>>>,
      <<<<-3, 1>>, <<4, 2>>>>,
      <<<<3, -4>>, <<-4, 2>>>>,
      <<<<0, 1>>, <<1, 0>>>>,
      <<<<-4, -4>>, <<3, -4>>>>,
      <<<<5, 12>>, <<12, -5>>>>,
      DiagonalMatrix(<<5, 3, 1>>),
      <<<<3, 4, 0>>, <<4, -3, 12>>, <<0, 12, 1>>>>,
      <<<<3, 0, 0>>, <<4, 5, 1>>, <<0, 4, 2>>>>,
      <<<<-3, 0, 0>>, <<4, -5, 1>>, <<0, -4, 2>>>>,
      <<<<3, 4, 0>>, <<4, -3, 0>>, <<0, 0, 1>>>>,
      <<<<1, 0, 0>>, <<0, 3, 4>>, <<0, 4, 2>>>>,
      <<<<0, 1, 0>>, <<1, 0, 0>>, <<0, 0, 0>>>>,
      <<<<2, 0, 0, 0>>, <<0, 3, 4, 0>>, <<0, 4, -3, 12>>, <<0, 0, 12, 1>>>>,
      <<<<3, 4, 0, 0>>, <<4, -3, 0, 0>>, <<0, 0, 4, 3>>, <<0, 0, 3, 1>>>> }

SweepInputs == { A \in { Dense(M) : M \in SweepCandidates } : SweepIsExact(A, 1) }

NoHelperCall == [fn |-> "none", a |-> Zero, b |-> Zero, A |-> <<>>]

HelperInit ==
    /\ gpc = "idle"
    /\ gargs = NoHelperCall
    /\ sweepQ = <<>>
    /\ sweepR = <<>>
    /\ sweepIndex = 0
    /\ passes = <<>>
    /\ gout = <<>>

\* shift := wilkinsonShift(A)
CallWilkinsonShift ==
    /\ gpc = "idle"
    /\ HelperFrame
    /\ \E A \in ShiftInputs :
          /\ gargs' = [NoHelperCall EXCEPT !.fn = "wilkinsonShift", !.A = A]
          /\ gout' = wilkinsonShift(A)
    /\ gpc' = "shifted"
    /\ UNCHANGED <<sweepQ, sweepR, sweepIndex, passes>>

\* c, s := givensRotation(a, b)
CallGivensRotation ==
    /\ gpc = "idle"
    /\ HelperFrame
    /\ \E ab \in RotationInputs :
          /\ gargs' = [NoHelperCall EXCEPT !.fn = "givensRotation",
                                           !.a = ab[1], !.b = ab[2]]
          /\ gout' = givensRotation(ab[1], ab[2])
    /\ gpc' = "rotated"
    /\ UNCHANGED <<sweepQ, sweepR, sweepIndex, passes>>

\* qrDecompositionGivens up to its loop: Q is the identity, R a copy of A
CallQrDecompositionGivens ==
    /\ gpc = "idle"
    /\ HelperFrame
    /\ \E A \in SweepInputs :
          /\ gargs' = [NoHelperCall EXCEPT !.fn = "qrDecompositionGivens", !.A = A]
          /\ sweepQ' = generateIdentityMatrix(Len(A))
          /\ sweepR' = A
    /\ sweepIndex' = 0
    /\ passes' = <<>>
    /\ gpc' = "sweep"
    /\ UNCHANGED gout

\* one pass of `for i := 0; i < n-1; i++ { ... }`
GivensPass ==
    /\ gpc = "sweep"
    /\ HelperFrame
    /\ sweepIndex < Len(sweepR) - 1
    /\ LET i == sweepIndex + 1
           entry == sweepR[i + 1][i]
           cs == givensRotation(sweepR[i][i], entry)
       IN IF ~BelowThreshold(entry)
          THEN /\ sweepR' = applyGivensRotationLeft(sweepR, i, i + 1, cs[1], cs[2])
               /\ sweepQ' = applyGivensRotationRight(sweepQ, i, i + 1, cs[1], cs[2])
               /\ passes' = Append(passes, [entry |-> entry, rotated |-> TRUE])
          ELSE /\ UNCHANGED <<sweepR, sweepQ>>
               /\ passes' = Append(passes, [entry |-> entry, rotated |-> FALSE])
    /\ sweepIndex' = sweepIndex + 1
    /\ UNCHANGED <<gpc, gargs, gout>>

\* return Q, R
GivensReturn ==
    /\ gpc = "sweep"
    /\ HelperFrame
    /\ sweepIndex >= Len(sweepR) - 1
    /\ gout' = [Q |-> sweepQ, R |-> sweepR]
    /\ gpc' = "swept"
    /\ UNCHANGED <<gargs, sweepQ, sweepR, sweepIndex, passes>>

\* the caller goes on to its next call
NextHelperCall ==
    /\ gpc \in {"shifted", "rotated", "swept"}
    /\ HelperFrame
    /\ gpc' = "idle"
    /\ gargs' = NoHelperCall
    /\ sweepQ' = <<>>
    /\ sweepR' = <<>>
    /\ sweepIndex' = 0
    /\ passes' = <<>>
    /\ gout' = <<>>

HelperNext ==
    \/ CallWilkinsonShift
    \/ CallGivensRotation
    \/ CallQrDecompositionGivens
    \/ GivensPass
    \/ GivensReturn
    \/ NextHelperCall

----------------------------------------------------------------------------
(* The eigen screen of the TUI: the fields generateResult reads              *)

\* predefinedMatrices of NewEigenModel
predefinedMatrices ==
    << <<<<2, 3>>, <<5, 4>>>>,
       <<<<2, 1, 0>>, <<1, 2, 1>>, <<0, 1, 2>>>>,
       <<<<5, 2, 1>>, <<2, 3, 1>>, <<1, 1, 2>>>>,
       <<<<4, 1, 0, 0>>, <<1, 3, 1, 0>>, <<0, 1, 3, 1>>, <<0, 0, 1, 2>>>> >>

PowerMethodRegular == 0

PowerMethodInverse == 1

PowerMethodFarthest == 2

PowerMethodNearest == 3

\* m.result
NoDisplay == [kind |-> "none", text |-> "", Eigenvalue |-> Zero, Eigenvector |-> <<>>,
              Iterations |-> 0]

\* m.Focused.ErrorMessage.Render(text)
ErrorMessage(text) == [NoDisplay EXCEPT !.kind = "error", !.text = text]

NotGenerated == [status |-> "none", callStatus |-> "none", read |-> FALSE,
                 nilDereference |-> FALSE]

\* NewEigenModel; selectedMatrix counts from 0 as in the code
TuiInit ==
    /\ eigenModel = [selectedPowerMethod |-> 0, selectedMatrix |-> 0,
                     initialVector |-> <<1, 1>>, epsilon |-> <<1, 10>>,
                     maxIterations |-> 1, kEigenvalue |-> 0, result |-> NoDisplay]
    /\ generated = NotGenerated

----------------------------------------------------------------------------
(* NewtonCotesUseCase.Calculate and GaussCalculatorUseCase.Calculate.  The   *)
(* accumulated area is the sum of what strategy.Integrate returns on the    *)
(* sub-intervals, which are kept in the order of the calls.                  *)

MaxPartitions == 4

\* the calls of Integrate a run is followed for
MaxIntegrateCalls == MaxPartitions + 2

IntervalEnds == {-1, 0, 1, 2}

\* (rightInterval - leftInterval) / float64(numberOfPartitions)
Delta(leftInterval, rightInterval, numberOfPartitions) ==
    FDiv(FSub(FInt(rightInterval), FInt(leftInterval)), FInt(numberOfPartitions))

\* the arguments on which delta and every i + delta are exact in float64:
\* delta is a multiple of a small power of 1/2, or is not finite
IntegralArguments ==
    { args \in [leftInterval : IntervalEnds, rightInterval : IntervalEnds,
                numberOfPartitions : 0..MaxPartitions] :
        Delta(args.leftInterval, args.rightInterval, args.numberOfPartitions)[2]
            \in {0, 1, 2, 4, 8} }

\* x <= y
FLessOrEqual(x, y) == FLess(x, y) \/ (x = y /\ ~IsNaN(x))

NoIntegralCall == [usecase |-> "none", leftInterval |-> 0, rightInterval |-> 0,
                   numberOfPartitions |-> 0, allowPartitioning |-> TRUE, delta |-> Zero]

NoIntegralReturn == [status |-> "none", err |-> ""]

IntegralInit ==
    /\ ipc = "idle"
    /\ icall = NoIntegralCall
    /\ cursor = Zero
    /\ intervals = <<>>
    /\ ireturn = NoIntegralReturn

\* NewtonCotesUseCase.Calculate up to its loop
CallNewtonCotes ==
    /\ ipc = "idle"
    /\ IntegralFrame
    /\ \E args \in IntegralArguments :
          /\ icall' = [usecase |-> "NewtonCotes", leftInterval |-> args.leftInterval,
                       rightInterval |-> args.rightInterval,
                       numberOfPartitions |-> args.numberOfPartitions,
                       allowPartitioning |-> TRUE,
                       delta |-> Delta(args.leftInterval, args.rightInterval,
                                       args.numberOfPartitions)]
          /\ cursor' = FInt(args.leftInterval)
    /\ ipc' = "loop"
    /\ intervals' = <<>>
    /\ ireturn' = NoIntegralReturn

\* GaussCalculatorUseCase.Calculate up to its loop: the three early returns,
\* the second one with a single call of Integrate on the whole interval
CallGauss ==
    /\ ipc = "idle"
    /\ IntegralFrame
    /\ \E args \in IntegralArguments, allowPartitioning \in BOOLEAN, failed \in BOOLEAN :
          /\ icall' = [usecase |-> "Gauss", leftInterval |-> args.leftInterval,
                       rightInterval |-> args.rightInterval,
                       numberOfPartitions |-> args.numberOfPartitions,
                       allowPartitioning |-> allowPartitioning,
                       delta |-> Delta(args.leftInterval, args.rightInterval,
                                       args.numberOfPartitions)]
          /\ cursor' = FInt(args.leftInterval)
          /\ IF args.leftInterval = args.rightInterval
             THEN /\ ipc' = "done"
                  /\ intervals' = <<>>
                  /\ ireturn' = [status |-> "error", err |-> "interval width is zero"]
             ELSE IF ~allowPartitioning
             THEN /\ ipc' = "done"
                  /\ intervals' = <<<<FInt(args.leftInterval), FInt(args.rightInterval)>>>>
                  /\ ireturn' = IF failed
                                THEN [status |-> "error", err |-> "strategy"]
                                ELSE [status |-> "ok", err |-> ""]
             ELSE IF args.numberOfPartitions = 0
             THEN /\ ipc' = "done"
                  /\ intervals' = <<>>
                  /\ ireturn' = [status |-> "error",
                                 err |-> "max number of partitions must be greater than zero"]
             ELSE /\ ipc' = "loop"
                  /\ intervals' = <<>>
                  /\ ireturn' = NoIntegralReturn

\* one pass of `for i := leftInterval; i <= rightInterval; i += delta`: the
\* strategy integrates [i, i+delta] and either fails or gives an area
IntegrateStep ==
    /\ ipc = "loop"
    /\ IntegralFrame
    /\ FLessOrEqual(cursor, FInt(icall.rightInterval))
    /\ Len(intervals) < MaxIntegrateCalls
    /\ intervals' = Append(intervals, <<cursor, FAdd(cursor, icall.delta)>>)
    /\ \E failed \in BOOLEAN :
          IF failed
          THEN /\ ipc' = "done"
               /\ ireturn' = [status |-> "error", err |-> "error integrating partition"]
               /\ UNCHANGED cursor
          ELSE /\ cursor' = FAdd(cursor, icall.delta)
               /\ UNCHANGED <<ipc, ireturn>>
    /\ UNCHANGED icall

\* the loop condition fails: return acumulatedArea, nil
IntegralReturn ==
    /\ ipc = "loop"
    /\ IntegralFrame
    /\ ~FLessOrEqual(cursor, FInt(icall.rightInterval))
    /\ ipc' = "done"
    /\ ireturn' = [status |-> "ok", err |-> ""]
    /\ UNCHANGED <<icall, cursor, intervals>>

\* the caller goes on to its next call
NextIntegralCall ==
    /\ ipc = "done"
    /\ IntegralFrame
    /\ ipc' = "idle"
    /\ icall' = NoIntegralCall
    /\ cursor' = Zero
    /\ intervals' = <<>>
    /\ ireturn' = NoIntegralReturn

IntegralNext ==
    \/ CallNewtonCotes
    \/ CallGauss
    \/ IntegrateStep
    \/ IntegralReturn
    \/ NextIntegralCall

----------------------------------------------------------------------------
(* The initial state, the power use case's actions and the specifications *)

Init ==
    /\ pc = "idle"
    /\ call = NoCall
    /\ coreMatrix = NoMatrix
    /\ bestEigenvector = NoVector
    /\ bestEigenvalue = Zero
    /\ currentError = PosInf
    /\ currentIteration = 0
    /\ stop = "none"
    /\ products = 0
    /\ result = NoResult
    /\ owned = NothingOwned
    /\ ResolverInit
    /\ SimilarityInit
    /\ ConcurrentInit
    /\ HelperInit
    /\ TuiInit
    /\ IntegralInit

\* the call reaches its return (or panics) before innerRegularPower, or
\* enters innerRegularPower up to the loop's first test
Begin(c, entry) ==
    /\ call' = c
    /\ bestEigenvalue' = Zero
    /\ currentError' = PosInf
    /\ currentIteration' = 0
    /\ stop' = "none"
    /\ products' = 0
    /\ IF entry.outcome = "core"
       THEN /\ pc' = "core"
            /\ coreMatrix' = entry.matrix
            /\ bestEigenvector' = Normalize(c.initialGuess)
            /\ result' = NoResult
            /\ owned' = [matrix |-> c.matrix,
                         initialGuess |-> AfterScaleVec(Slice(c.initialGuess),
                                                        Normalize(c.initialGuess)),
                         returned |-> "none"]
       ELSE /\ pc' = "done"
            /\ coreMatrix' = NoMatrix
            /\ bestEigenvector' = NoVector
            /\ result' = IF entry.outcome = "error" THEN Failure(entry.err)
                                                    ELSE Panic(entry.err)
            /\ owned' = [matrix |-> c.matrix, initialGuess |-> Slice(c.initialGuess),
                         returned |-> "none"]

CallRegularPower ==
    /\ Idle
    /\ PowerFrame
    /\ \E matrix \in Matrices, initialGuess \in Guesses, epsilon \in Epsilons,
       maxNumberOfIterations \in 0..MaxIter :
        Begin([op |-> "RegularPower", matrix |-> matrix, initialGuess |-> initialGuess,
               shift |-> 0, epsilon |-> epsilon,
               maxNumberOfIterations |-> maxNumberOfIterations, factorized |-> TRUE],
              RegularPowerEntry(matrix, initialGuess))

CallInversePower ==
    /\ Idle
    /\ PowerFrame
    /\ \E matrix \in Matrices, initialGuess \in Guesses, epsilon \in Epsilons,
       maxNumberOfIterations \in 0..MaxIter :
        Begin([op |-> "InversePower", matrix |-> matrix, initialGuess |-> initialGuess,
               shift |-> 0, epsilon |-> epsilon,
               maxNumberOfIterations |-> maxNumberOfIterations, factorized |-> TRUE],
              InversePowerEntry(matrix, initialGuess))

CallFarthestEigenvaluePower ==
    /\ Idle
    /\ PowerFrame
    /\ \E matrix \in Matrices, initialGuess \in Guesses, shift \in Shifts,
       epsilon \in Epsilons, maxNumberOfIterations \in 0..MaxIter,
       factorized \in BOOLEAN :
        Begin([op |-> "FarthestEigenvaluePower", matrix |-> matrix,
               initialGuess |-> initialGuess, shift |-> shift, epsilon |-> epsilon,
               maxNumberOfIterations |-> maxNumberOfIterations,
               factorized |-> factorized],
              FarthestEigenvaluePowerEntry(matrix, initialGuess, shift))

CallNearestEigenvaluePower ==
    /\ Idle
    /\ PowerFrame
    /\ \E matrix \in Matrices, initialGuess \in Guesses, shift \in Shifts,
       epsilon \in Epsilons, maxNumberOfIterations \in 0..MaxIter,
       factorized \in BOOLEAN :
        Begin([op |-> "NearestEigenvaluePower", matrix |-> matrix,
               initialGuess |-> initialGuess, shift |-> shift, epsilon |-> epsilon,
               maxNumberOfIterations |-> maxNumberOfIterations,
               factorized |-> factorized],
              NearestEigenvaluePowerEntry(matrix, initialGuess, shift))

\* one pass of `for currentIteration < maxNumberOfIterations { ... }`
Iterate ==
    /\ pc = "core"
    /\ PowerFrame
    /\ stop = "none"
    /\ currentIteration < call.maxNumberOfIterations
    /\ UNCHANGED <<call, coreMatrix>>
    /\ currentIteration' = currentIteration + 1
    /\ IF MulVecPanics(coreMatrix.num, bestEigenvector.dir)
       THEN /\ pc' = "done"
            /\ result' = Panic("mat: dimension mismatch")
            /\ UNCHANGED <<bestEigenvector, bestEigenvalue, currentError, stop, products,
                           owned>>
       ELSE /\ pc' = "core"
            /\ result' = result
            /\ products' = products + 1
            /\ IF bestEigenvector.kind = "nan"
               THEN \* every entry of Y is NaN: normY, the estimate and the error are NaN
                    /\ bestEigenvalue' = NaN
                    /\ currentError' = NaN
                    /\ UNCHANGED <<bestEigenvector, stop, owned>>
               ELSE IF NormYIsZero(coreMatrix, bestEigenvector.dir)
               THEN /\ stop' = "zeroNorm"
                    /\ UNCHANGED <<bestEigenvector, bestEigenvalue, currentError, owned>>
               ELSE LET possibleBestEigenvalue ==
                            PossibleBestEigenvalue(coreMatrix, bestEigenvector.dir)
                        iterationError ==
                            IterationError(possibleBestEigenvalue, bestEigenvalue)
                    IN /\ bestEigenvector' = NextEigenvector(coreMatrix, bestEigenvector.dir)
                       /\ owned' = [owned EXCEPT !.initialGuess =
                                       AfterScaleVec(@, NextEigenvector(coreMatrix,
                                                                       bestEigenvector.dir))]
                       /\ currentError' = iterationError
                       /\ bestEigenvalue' = possibleBestEigenvalue
                       /\ stop' = IF StopTest(iterationError, call.epsilon)
                                  THEN "converged" ELSE "none"

\* the loop is left and the entry point returns
Return ==
    /\ pc = "core"
    /\ PowerFrame
    /\ stop # "none" \/ currentIteration >= call.maxNumberOfIterations
    /\ pc' = "done"
    /\ result' =
         CASE call.op = "RegularPower" -> RegularPowerReturn(InnerResult)
           [] call.op = "InversePower" -> InversePowerReturn(InnerResult)
           [] call.op = "FarthestEigenvaluePower" ->
                FarthestEigenvaluePowerReturn(InnerResult, constructMatrix(call.matrix),
                                              call.shift, call.factorized)
           [] call.op = "NearestEigenvaluePower" ->
                NearestEigenvaluePowerReturn(InnerResult, constructMatrix(call.matrix),
                                             call.shift, call.factorized)
    /\ owned' = [owned EXCEPT !.returned = EigenvectorBuffer(result')]
    /\ UNCHANGED <<call, coreMatrix, bestEigenvector, bestEigenvalue, currentError,
                   currentIteration, stop, products>>

\* the caller is free to make the next call
NextCall ==
    /\ pc = "done"
    /\ PowerFrame
    /\ pc' = "idle"
    /\ call' = NoCall
    /\ coreMatrix' = NoMatrix
    /\ bestEigenvector' = NoVector
    /\ bestEigenvalue' = Zero
    /\ currentError' = PosInf
    /\ currentIteration' = 0
    /\ stop' = "none"
    /\ products' = 0
    /\ result' = NoResult
    /\ owned' = NothingOwned

Next ==
    \/ CallRegularPower
    \/ CallInversePower
    \/ CallFarthestEigenvaluePower
    \/ CallNearestEigenvaluePower
    \/ Iterate
    \/ Return
    \/ NextCall

Spec == Init /\ [][Next]_vars

ResolverSpec == Init /\ [][ResolverNext]_vars

SimilaritySpec == Init /\ [][SimilarityNext]_vars

ConcurrentSpec == Init /\ [][ConcurrentNext]_vars

HelperSpec == Init /\ [][HelperNext]_vars

IntegralSpec == Init /\ [][IntegralNext]_vars

\* the three parts together, one call at a time
ProgramNext == Next \/ ResolverNext \/ SimilarityNext

ProgramSpec == Init /\ [][ProgramNext]_vars

----------------------------------------------------------------------------
(* Vocabulary of the properties, defined independently of the operators     *)
(* above                                                                    *)

IsSquare(matrix) ==
    /\ Len(matrix) >= 1
    /\ \A i \in 1..Len(matrix) : Len(matrix[i]) = Len(matrix)

GuessIsZero(guess) == \A i \in DOMAIN guess : guess[i] = 0

\* the matrix is empty, or its row count or some row's length differs from
\* the guess length
NotSquareCompatible(matrix, guess) ==
    \/ Len(matrix) = 0
    \/ Len(matrix) # Len(guess)
    \/ \E i \in 1..Len(matrix) : Len(matrix[i]) # Len(guess)

\* malformed numeric input: empty, non-square or ragged matrix, a guess of
\* another length, or an all-zero guess
Malformed(matrix, guess) ==
    \/ ~IsSquare(matrix)
    \/ Len(guess) # Len(matrix)
    \/ GuessIsZero(guess)

KernelRange == -4..4

\* a square integer matrix of the input sets (shifted or not) is singular
\* exactly when it sends some non-zero vector with small entries to 0
HasKernelVector(M) ==
    \E x \in [1..Len(M) -> KernelRange] :
        /\ \E i \in 1..Len(M) : x[i] # 0
        /\ \A i \in 1..Len(M) : SumTo([j \in 1..Len(M) |-> M[i][j] * x[j]], Len(M)) = 0

MinusShift(M, shift) ==
    [i \in 1..Len(M) |-> [j \in 1..Len(M) |-> M[i][j] - (IF i = j THEN shift ELSE 0)]]

InCall(op) == pc \in {"core", "done"} /\ call.op = op

Returned(op) == pc = "done" /\ call.op = op

----------------------------------------------------------------------------
(* C1: RegularPower with an all-zero initial guess returns the              *)
(* zero-initial-guess error and a nil result whatever the matrix is (empty  *)
(* and mismatched matrices included), and runs no iteration.                *)
C1_ZeroGuessRejected ==
    (InCall("RegularPower") /\ GuessIsZero(call.initialGuess)) =>
        /\ pc = "done"
        /\ result.status = "error"
        /\ result.err = "zero initial guess"
        /\ result.isNil
        /\ products = 0
        /\ currentIteration = 0

C1_Witness ==
    /\ Returned("RegularPower")
    /\ call.initialGuess = <<0, 0>>
    /\ call.matrix = <<>>
    /\ result.status = "error"

(* C2: RegularPower with a non-zero guess returns an error and no result    *)
(* for every matrix that is empty or not square-compatible with the guess,  *)
(* and never iterates on such a matrix.                                     *)
C2_NotSquareCompatibleRejected ==
    (/\ InCall("RegularPower")
     /\ ~GuessIsZero(call.initialGuess)
     /\ NotSquareCompatible(call.matrix, call.initialGuess)) =>
        /\ pc = "done"
        /\ result.status = "error"
        /\ result.isNil
        /\ products = 0

(* C3: no entry point panics or returns a successful result on malformed    *)
(* numeric input (empty, non-square or ragged matrix, guess of another      *)
(* length, all-zero guess): the call returns an error immediately.          *)
C3_MalformedInputRejected ==
    (/\ pc \in {"core", "done"}
     /\ Malformed(call.matrix, call.initialGuess)) =>
        /\ pc = "done"
        /\ result.status = "error"
        /\ result.isNil
        /\ products = 0

(* C4: when the matrix to invert is singular, InversePower returns an error *)
(* and a nil result without any power iteration, and NearestEigenvaluePower *)
(* propagates that error when M - shift*I is singular.                      *)
C4_SingularMatrixIsAnError ==
    /\ (/\ InCall("InversePower")
        /\ IsSquare(call.matrix)
        /\ HasKernelVector(call.matrix)) =>
            /\ pc = "done"
            /\ result.status = "error"
            /\ result.isNil
            /\ products = 0
            /\ currentIteration = 0
    /\ (/\ InCall("NearestEigenvaluePower")
        /\ IsSquare(call.matrix)
        /\ HasKernelVector(MinusShift(call.matrix, call.shift))) =>
            /\ pc = "done"
            /\ result.status = "error"
            /\ result.isNil
            /\ products = 0
            /\ currentIteration = 0

C4_Witness ==
    /\ Returned("NearestEigenvaluePower")
    /\ call.matrix = << <<2, 3>>, <<0, -1>> >>
    /\ call.shift = 2
    /\ call.initialGuess = <<1, 1>>
    /\ result.status = "error"
    /\ result.isNil

----------------------------------------------------------------------------
(* The power iteration in closed form, for a matrix num/den and a start     *)
(* vector v0: the estimate of iteration j is the Rayleigh quotient of       *)
(* num^(j-1) * v0 and the vector after iteration j is along                 *)
(* (num/den)^j * v0.  Written without the operators of the loop body.       *)

RECURSIVE RefPow(_, _, _)
RefPow(N, v0, j) ==
    IF j = 0 THEN v0
    ELSE LET u == RefPow(N, v0, j - 1)
         IN [i \in 1..Len(N) |-> SumTo([c \in 1..Len(u) |-> N[i][c] * u[c]], Len(u))]

RefSquaredNorm(u) == SumTo([i \in 1..Len(u) |-> u[i] * u[i]], Len(u))

RefReduce(n, d) ==
    LET g == GCD(Abs(n), Abs(d))
    IN IF d < 0 THEN <<(-n) \div g, (-d) \div g>> ELSE <<n \div g, d \div g>>

\* the eigenvalue estimate at the end of iteration j (0 before the first)
RefEstimate(M, v0, j) ==
    IF j = 0 THEN <<0, 1>>
    ELSE LET u == RefPow(M.num, v0, j - 1)
             y == RefPow(M.num, v0, j)
         IN RefReduce(SumTo([i \in 1..Len(u) |-> y[i] * u[i]], Len(u)),
                      M.den * RefSquaredNorm(u))

RECURSIVE RefSignPow(_, _)
RefSignPow(d, j) == IF j = 0 THEN 1 ELSE (IF d < 0 THEN -1 ELSE 1) * RefSignPow(d, j - 1)

\* the unit vector at the end of iteration j, as its primitive integer direction
RefDirection(M, v0, j) ==
    LET y == RefPow(M.num, v0, j)
        g == GcdTo(y, Len(y))
    IN [kind |-> "unit", dir |-> [i \in 1..Len(y) |-> (RefSignPow(M.den, j) * y[i]) \div g]]

RefProductIsZero(M, v0, j) == \A i \in 1..Len(v0) : RefPow(M.num, v0, j)[i] = 0

\* |a - b| / |a| < eps for the estimates a of iteration j and b of iteration j-1
RefConverged(M, v0, eps, j) ==
    LET a == RefEstimate(M, v0, j)
        b == RefEstimate(M, v0, j - 1)
    IN /\ a[1] # 0
       /\ Abs(a[1] * b[2] - b[1] * a[2]) * eps[2] < eps[1] * b[2] * Abs(a[1])

RefShapesFit(M, v0) ==
    /\ Len(M.num) = Len(v0)
    /\ \A i \in 1..Len(M.num) : Len(M.num[i]) = Len(v0)

RECURSIVE RefRunFrom(_, _, _, _, _)
RefRunFrom(M, v0, eps, max, j) ==
    IF j > max
    THEN [panic |-> FALSE, stop |-> "none", Eigenvalue |-> RefEstimate(M, v0, max),
          Eigenvector |-> RefDirection(M, v0, max), NumIterations |-> max]
    ELSE IF RefProductIsZero(M, v0, j)
    THEN [panic |-> FALSE, stop |-> "zeroNorm", Eigenvalue |-> RefEstimate(M, v0, j - 1),
          Eigenvector |-> RefDirection(M, v0, j - 1), NumIterations |-> j]
    ELSE IF RefConverged(M, v0, eps, j)
    THEN [panic |-> FALSE, stop |-> "converged", Eigenvalue |-> RefEstimate(M, v0, j),
          Eigenvector |-> RefDirection(M, v0, j), NumIterations |-> j]
    ELSE RefRunFrom(M, v0, eps, max, j + 1)

\* the whole run of the core on (M, v0, eps, max)
RefCoreRun(M, v0, eps, max) ==
    IF max >= 1 /\ ~RefShapesFit(M, v0)
    THEN [panic |-> TRUE, stop |-> "none", Eigenvalue |-> <<0, 1>>,
          Eigenvector |-> [kind |-> "none", dir |-> <<>>], NumIterations |-> 0]
    ELSE IF \A i \in 1..Len(v0) : v0[i] = 0
    THEN [panic |-> FALSE, stop |-> "none",
          Eigenvalue |-> IF max = 0 THEN <<0, 1>> ELSE <<0, 0>>,
          Eigenvector |-> [kind |-> "nan", dir |-> v0], NumIterations |-> max]
    ELSE RefRunFrom(M, v0, eps, max, 1)

EnteredCore == pc \in {"core", "done"} /\ coreMatrix # NoMatrix

----------------------------------------------------------------------------
(* C5: the core always terminates after at most maxNumberOfIterations       *)
(* matrix-vector products, and when no exit of the loop is taken within the *)
(* budget it returns a non-nil result with a nil error and NumIterations =  *)
(* maxNumberOfIterations (checked on the entry points that return the       *)
(* core's error unchanged).                                                 *)
C5_BudgetedCoreAlwaysReturns ==
    /\ products <= call.maxNumberOfIterations
    /\ currentIteration <= call.maxNumberOfIterations
    /\ (/\ pc = "done"
        /\ EnteredCore
        /\ call.op \in {"RegularPower", "InversePower"}
        /\ stop = "none") =>
            /\ result.status = "ok"
            /\ ~result.isNil
            /\ result.NumIterations = call.maxNumberOfIterations

(* C6: if the product of iteration k has zero norm, the core stops at once  *)
(* and returns successfully with the eigenvalue and the unit eigenvector as *)
(* they stood at the end of iteration k-1; no later iteration runs.         *)
C6_ZeroNormStopsWithLastEstimate ==
    (/\ EnteredCore
     /\ RefShapesFit(coreMatrix, call.initialGuess)
     /\ ~GuessIsZero(call.initialGuess)
     /\ currentIteration >= 1
     /\ RefProductIsZero(coreMatrix, call.initialGuess, currentIteration)) =>
        /\ stop = "zeroNorm"
        /\ products = currentIteration
        /\ ~ENABLED Iterate
        /\ bestEigenvalue = RefEstimate(coreMatrix, call.initialGuess, currentIteration - 1)
        /\ bestEigenvector = RefDirection(coreMatrix, call.initialGuess, currentIteration - 1)
        /\ Returned("RegularPower") =>
              result = Success(RefEstimate(coreMatrix, call.initialGuess, currentIteration - 1),
                               RefDirection(coreMatrix, call.initialGuess, currentIteration - 1),
                               currentIteration)

\* the zero-norm product comes at the second iteration, after a valid first one
C6_Witness ==
    /\ Returned("RegularPower")
    /\ stop = "zeroNorm"
    /\ currentIteration = 2
    /\ result.status = "ok"
    /\ result.Eigenvalue # Zero

----------------------------------------------------------------------------
(* Eigenvalues of the 2 x 2 integer matrices of the input sets, found by    *)
(* search among the integers                                                *)

EigenRange == -7..7

IsEigenpair(M, mu, v) ==
    /\ Len(v) = Len(M)
    /\ \E i \in 1..Len(v) : v[i] # 0
    /\ \A i \in 1..Len(M) : SumTo([j \in 1..Len(v) |-> M[i][j] * v[j]], Len(v)) = mu * v[i]

IntegerEigenvalues(M) ==
    { mu \in EigenRange : (M[1][1] - mu) * (M[2][2] - mu) - M[1][2] * M[2][1] = 0 }

\* two integer eigenvalues of different magnitude: the larger is strictly dominant
HasDominantEigenvalue(M) ==
    /\ IsSquare(M) /\ Len(M) = 2
    /\ \E mu \in IntegerEigenvalues(M) : \E nu \in IntegerEigenvalues(M) : Abs(mu) > Abs(nu)

DominantEigenvalue(M) ==
    CHOOSE mu \in IntegerEigenvalues(M) : \E nu \in IntegerEigenvalues(M) : Abs(mu) > Abs(nu)

OtherEigenvalue(M) ==
    CHOOSE nu \in IntegerEigenvalues(M) : Abs(DominantEigenvalue(M)) > Abs(nu)

\* v0 is not in the eigenspace of the other eigenvalue
HasDominantComponent(M, v0) ==
    /\ Len(v0) = 2
    /\ \E i \in 1..2 : v0[i] # 0
    /\ ~IsEigenpair(M, OtherEigenvalue(M), v0)

\* |x - mu| <= 10 * eps for a finite x
WithinTenEpsilon(x, mu, eps) ==
    /\ x[2] # 0
    /\ Abs(x[1] - mu * x[2]) * eps[2] <= 10 * eps[1] * x[2]

RefReciprocal(x) ==
    IF x[2] = 0 THEN (IF x[1] = 0 THEN <<0, 0>> ELSE <<0, 1>>)
    ELSE IF x[1] = 0 THEN <<1, 0>>
    ELSE RefReduce(x[2], x[1])

RefPlus(x, k) == IF x[2] = 0 THEN x ELSE RefReduce(x[1] + k * x[2], x[2])

\* num / den is the inverse of the integer matrix M
IsInverseOf(I, M) ==
    /\ I.den # 0
    /\ Len(I.num) = Len(M)
    /\ \A i \in 1..Len(M) : \A j \in 1..Len(M) :
          SumTo([k \in 1..Len(M) |-> I.num[i][k] * M[k][j]], Len(M))
              = (IF i = j THEN I.den ELSE 0)

----------------------------------------------------------------------------
(* C7, as claimed: for a matrix with a strictly dominant eigenvalue and a   *)
(* guess with a non-zero component along its eigenvector, a converged       *)
(* RegularPower run (which no larger budget changes) returns an eigenvalue  *)
(* within 10*epsilon of the dominant eigenvalue.                            *)
C7_ConvergedMeansDominant ==
    (/\ Returned("RegularPower")
     /\ result.status = "ok"
     /\ stop = "converged"
     /\ HasDominantEigenvalue(call.matrix)
     /\ HasDominantComponent(call.matrix, call.initialGuess)) =>
        WithinTenEpsilon(result.Eigenvalue, DominantEigenvalue(call.matrix), call.epsilon)

(* C7, amended: for such a matrix and guess RegularPower returns the        *)
(* Rayleigh quotient of u = M^(k-1)*v0 and the unit vector along M^k*v0,    *)
(* k = NumIterations being the first iteration whose quotient differs from  *)
(* the previous one by less than epsilon relative to it (or whose product   *)
(* is zero, or the budget); it is the dominant eigenvalue itself when v0 is *)
(* a dominant eigenvector.                                                  *)
C7_ReturnsRayleighQuotientOfLastIterate ==
    (/\ Returned("RegularPower")
     /\ HasDominantEigenvalue(call.matrix)
     /\ HasDominantComponent(call.matrix, call.initialGuess)) =>
        LET M == [num |-> call.matrix, den |-> 1]
            v0 == call.initialGuess
            k == result.NumIterations
        IN /\ result.status = "ok"
           /\ result = Success(RefEstimate(M, v0, k), RefDirection(M, v0, k), k)
           /\ k = RefCoreRun(M, v0, call.epsilon, call.maxNumberOfIterations).NumIterations
           /\ k < call.maxNumberOfIterations => RefConverged(M, v0, call.epsilon, k)
           /\ (/\ IsEigenpair(call.matrix, DominantEigenvalue(call.matrix), v0)
               /\ call.maxNumberOfIterations >= 1) =>
                  /\ result.Eigenvalue = <<DominantEigenvalue(call.matrix), 1>>
                  /\ IsEigenpair(call.matrix, DominantEigenvalue(call.matrix),
                                 result.Eigenvector.dir)

\* a run that stopped by convergence far from the dominant eigenvalue
C7_Witness ==
    /\ Returned("RegularPower")
    /\ call.matrix = << <<3, 0>>, <<-1, 2>> >>
    /\ call.initialGuess = <<1, 3>>
    /\ call.epsilon = <<1, 10>>
    /\ stop = "converged"
    /\ result.NumIterations = 2
    /\ result.Eigenvalue = <<31, 17>>

(* C8: for an invertible matrix M, InversePower(M, v0, eps, max) is the     *)
(* core run on the inverse of M with the same v0, eps and max, except that  *)
(* the reported eigenvalue is 1/lambda_core; eigenvector and NumIterations  *)
(* are those of the core run.                                               *)
C8_InversePowerIsCoreOnInverse ==
    (/\ InCall("InversePower")
     /\ IsSquare(call.matrix)
     /\ ~HasKernelVector(call.matrix)
     /\ Len(call.initialGuess) >= 1) =>
        /\ EnteredCore
        /\ IsInverseOf(coreMatrix, call.matrix)
        /\ pc = "done" =>
             LET ref == RefCoreRun(coreMatrix, call.initialGuess, call.epsilon,
                                   call.maxNumberOfIterations)
             IN IF ref.panic THEN result.status = "panic"
                ELSE result = Success(RefReciprocal(ref.Eigenvalue), ref.Eigenvector,
                                      ref.NumIterations)

C8_Witness ==
    /\ Returned("InversePower")
    /\ call.matrix = << <<2, 3>>, <<0, -1>> >>
    /\ result.status = "ok"
    /\ result.NumIterations = 2
    /\ result.Eigenvalue # bestEigenvalue
    /\ result.Eigenvector = bestEigenvector

(* C9: FarthestEigenvaluePower(M, v0, shift, eps, max) runs the core on     *)
(* M - shift*I (which is not M unless shift = 0) and reports lambda_core +  *)
(* shift with that run's iteration count, whenever the eigenvector          *)
(* extraction succeeds.                                                     *)
C9_FarthestIsCoreOnShiftedMatrix ==
    (/\ InCall("FarthestEigenvaluePower")
     /\ IsSquare(call.matrix)
     /\ Len(call.initialGuess) >= 1) =>
        LET M == [num |-> MinusShift(call.matrix, call.shift), den |-> 1]
            ref == RefCoreRun(M, call.initialGuess, call.epsilon,
                              call.maxNumberOfIterations)
        IN /\ EnteredCore
           /\ coreMatrix = M
           /\ call.shift # 0 => coreMatrix.num # call.matrix
           /\ pc = "done" =>
                /\ result.status = "panic" <=> ref.panic
                /\ result.status = "ok" <=> (call.factorized /\ ~ref.panic)
                /\ result.status = "ok" =>
                     /\ result.Eigenvalue = RefPlus(ref.Eigenvalue, call.shift)
                     /\ result.NumIterations = ref.NumIterations
                     /\ \A mu \in EigenRange :
                          (/\ IsEigenpair(call.matrix, mu, call.initialGuess)
                           /\ mu # call.shift
                           /\ call.maxNumberOfIterations >= 1) =>
                              result.Eigenvalue = <<mu, 1>>

C9_Witness ==
    /\ Returned("FarthestEigenvaluePower")
    /\ call.matrix = << <<2, 3>>, <<0, -1>> >>
    /\ call.initialGuess = <<1, 1>>
    /\ call.shift = 2
    /\ result.status = "ok"
    /\ result.NumIterations = 2
    /\ result.Eigenvalue = FAdd(bestEigenvalue, FInt(2))

(* C10: NearestEigenvaluePower(M, v0, shift, eps, max) runs inverse power   *)
(* on M - shift*I and reports that run's eigenvalue plus shift, with that   *)
(* run's iteration count (when the eigenvector extraction succeeds).        *)
C10_NearestIsInversePowerOnShiftedMatrix ==
    (/\ InCall("NearestEigenvaluePower")
     /\ IsSquare(call.matrix)
     /\ Len(call.initialGuess) >= 1
     /\ ~HasKernelVector(MinusShift(call.matrix, call.shift))) =>
        /\ EnteredCore
        /\ IsInverseOf(coreMatrix, MinusShift(call.matrix, call.shift))
        /\ pc = "done" =>
             LET ref == RefCoreRun(coreMatrix, call.initialGuess, call.epsilon,
                                   call.maxNumberOfIterations)
             IN /\ result.status = "panic" <=> ref.panic
                /\ result.status = "ok" <=> (call.factorized /\ ~ref.panic)
                /\ result.status = "ok" =>
                     /\ result.Eigenvalue =
                            RefPlus(RefReciprocal(ref.Eigenvalue), call.shift)
                     /\ result.NumIterations = ref.NumIterations
                     /\ \A mu \in EigenRange :
                          (/\ IsEigenpair(call.matrix, mu, call.initialGuess)
                           /\ mu # call.shift
                           /\ call.maxNumberOfIterations >= 1) =>
                              result.Eigenvalue = <<mu, 1>>

C10_Witness ==
    /\ Returned("NearestEigenvaluePower")
    /\ call.matrix = << <<3, 0>>, <<-1, 0>> >>
    /\ call.initialGuess = <<1, 1>>
    /\ call.shift = 2
    /\ result.status = "ok"
    /\ result.NumIterations = 2
    /\ IsFinite(result.Eigenvalue)

----------------------------------------------------------------------------
(* C11: in FarthestEigenvaluePower and NearestEigenvaluePower the returned  *)
(* eigenvector is what extractEigenvectorFromMatrix gives for the original  *)
(* (unshifted) matrix and the reported eigenvalue, never the vector the     *)
(* shifted iteration ended with; when the extraction fails the call returns *)
(* an error and a nil result.                                               *)
ShiftedVariant == call.op \in {"FarthestEigenvaluePower", "NearestEigenvaluePower"}

C11_EigenvectorComesFromResolver ==
    (pc = "done" /\ ShiftedVariant /\ EnteredCore /\ result.status # "panic") =>
        IF call.factorized
           THEN /\ result.status = "ok"
                /\ ~result.isNil
                /\ result.Eigenvector.kind = "resolved"
                /\ IsSquare(call.matrix) => result.Eigenvector.of = call.matrix
                /\ result.Eigenvector.target = result.Eigenvalue
                /\ result.Eigenvector # bestEigenvector
                /\ call.shift # 0 => result.Eigenvector.of # coreMatrix.num
           ELSE /\ result.status = "error"
                /\ result.isNil
                /\ result.Eigenvector = [kind |-> "none", dir |-> <<>>]

C11_Witness ==
    /\ Returned("NearestEigenvaluePower")
    /\ call.matrix = << <<2, 3>>, <<0, -1>> >>
    /\ call.initialGuess = <<1, 1>>
    /\ call.shift = 0
    /\ call.maxNumberOfIterations = 2
    /\ result.status = "ok"
    /\ bestEigenvector.kind = "unit"
    /\ result.Eigenvector.kind = "resolved"
    /\ result.Eigenvector.of = call.matrix

----------------------------------------------------------------------------
(* Vocabulary of the similarity claims *)

\* the caller's matrix as a dense matrix
CallerMatrix == Dense(constructMatrix(memory["matrix"]))

HouseholderReturned == spc = "hdone" /\ hresult.status = "ok"

IsSymmetric(M) == \A i \in 1..Len(M) : \A j \in 1..Len(M) : M[i][j] = M[j][i]

IsIdentity(M) ==
    \A i \in 1..Len(M) : \A j \in 1..Len(M) :
        M[i][j] = (IF i = j THEN FInt(1) ELSE Zero)

\* columns 1..k of M (and, by rows, their mirror) are zero outside the three
\* central diagonals
ReducedUpTo(M, k) ==
    \A c \in 1..k : \A i \in 1..Len(M) :
        i > c + 1 => (M[i][c] = Zero /\ M[c][i] = Zero)

IsTridiagonal(M) == \A i \in 1..Len(M) : \A j \in 1..Len(M) :
    (i - j > 1 \/ j - i > 1) => M[i][j] = Zero

\* C13: for a symmetric n x n input, each pass of HouseholderMethod's loop for
\* pivot column j leaves columns 0..j tridiagonal, the loop makes n-2 passes
\* (none when n < 3), and the TriangulizedMatrix returned has an exact zero
\* at every entry (i,j) with |i - j| > 1.
C13_TriangulizedMatrixIsTridiagonal ==
    /\ spc = "householder" =>
          /\ IsSymmetric(CallerMatrix)
          /\ ReducedUpTo(memory["aMinus1"], pivot)
    /\ HouseholderReturned =>
          LET n == Len(memory["matrix"])
          IN /\ pivot = (IF n > 2 THEN n - 2 ELSE 0)
             /\ Len(memory[hresult.TriangulizedMatrix]) = n
             /\ IsTridiagonal(memory[hresult.TriangulizedMatrix])

\* a 4 x 4 input with non-zero entries off the three diagonals has gone
\* through both reflector steps
C13_Witness ==
    /\ HouseholderReturned
    /\ memory["matrix"] = <<<<2, 1, 2, 2>>, <<1, -1, -1, 0>>, <<2, -1, 0, -1>>, <<2, 0, -1, 1>>>>
    /\ pivot = 2
    /\ ~IsIdentity(reflector)
    /\ ~IsTridiagonal(CallerMatrix)
    /\ memory[hresult.TriangulizedMatrix][2][1] # Zero

\* C14: the accumulated HouseholderMatrix Q satisfies Q^T * Q = I when
\* HouseholderMethod starts, after every accumulation Q <- Q * H of its loop
\* and in the result returned; each reflector H is itself orthogonal.
C14_HouseholderMatrixIsOrthogonal ==
    /\ spc = "householder" =>
          /\ IsIdentity(Mul(Transpose(memory["householderMatrix"]),
                            memory["householderMatrix"]))
          /\ pivot > 0 => IsIdentity(Mul(Transpose(reflector), reflector))
    /\ HouseholderReturned =>
          IsIdentity(Mul(Transpose(memory[hresult.HouseholderMatrix]),
                         memory[hresult.HouseholderMatrix]))

\* between the two accumulation steps of a 4 x 4 input, Q is no longer the
\* identity
C14_Witness ==
    /\ spc = "householder"
    /\ Len(memory["matrix"]) = 4
    /\ pivot = 1
    /\ ~IsIdentity(reflector)
    /\ memory["householderMatrix"] = reflector
    /\ ~IsIdentity(memory["householderMatrix"])

\* C15: with A the caller's symmetric matrix, the working pair (Q, T) of
\* HouseholderMethod satisfies Q * T * Q^T = A and Q^T * A * Q = T when the
\* loop starts, after each step A <- H^T * A * H, Q <- Q * H, and in the
\* result returned.
C15_HouseholderPairReconstructsInput ==
    (spc \in {"householder", "hdone"}) =>
        LET Q == memory["householderMatrix"]
            T == memory["aMinus1"]
        IN /\ Mul(Mul(Q, T), Transpose(Q)) = CallerMatrix
           /\ Mul(Mul(Transpose(Q), CallerMatrix), Q) = T
           /\ HouseholderReturned =>
                 /\ hresult.HouseholderMatrix = "householderMatrix"
                 /\ hresult.TriangulizedMatrix = "aMinus1"

\* a 3 x 3 input that a non-trivial reflector has changed
C15_Witness ==
    /\ HouseholderReturned
    /\ memory["matrix"] = <<<<2, 3, 4>>, <<3, -1, 1>>, <<4, 1, 2>>>>
    /\ memory[hresult.TriangulizedMatrix] # CallerMatrix
    /\ ~IsIdentity(memory[hresult.HouseholderMatrix])

QRReturned == spc = "qdone" /\ qresult.status = "ok"

\* QRMethod was called on what HouseholderMethod returned for the caller's
\* matrix, and has returned
DecompositionReturned == QRReturned /\ sargs.origin = "householder"

Column(M, i) == [k \in 1..Len(M) |-> M[k][i]]

\* M * v - lambda * v
Residual(M, lambda, v) ==
    [k \in 1..Len(M) |->
        FSub(FSum([j \in 1..Len(M) |-> FMul(M[k][j], v[j])], Len(M)), FMul(lambda, v[k]))]

SquaredNorm(v) == FSum([k \in 1..Len(v) |-> FMul(v[k], v[k])], Len(v))

AtMost(x, y) == IsFinite(x) /\ IsFinite(y) /\ ~FLess(y, x)

\* C16 as stated: after HouseholderMethod and QRMethod on a symmetric A there
\* are n eigenvalues, and for every i, A * v_i - Eigenvalues[i] * v_i is
\* within the tolerance in every component (no condition on how the loop of
\* QRMethod ended).
C16_EigenpairLaw ==
    DecompositionReturned =>
        LET V == memory[qresult.Eigenvectors]
        IN /\ Len(qresult.Eigenvalues) = Len(CallerMatrix)
           /\ \A i \in 1..Len(CallerMatrix) :
                \A k \in 1..Len(CallerMatrix) :
                    AtMost(FAbs(Residual(CallerMatrix, qresult.Eigenvalues[i],
                                         Column(V, i))[k]),
                           sargs.tolerance)

\* C16, what the decomposition does guarantee: there are n eigenvalues, Eigenvalues[i] is the i-th diagonal
\* entry of the final working matrix, column i of Eigenvectors is a unit
\* vector, and the squared norm of A * v_i - Eigenvalues[i] * v_i is the sum
\* of the squares of the off-diagonal entries of column i of the final
\* working matrix; when that matrix passes the convergence test the norm is
\* at most sqrt(2) * tolerance.
C16_EigenpairsOfConvergedDecomposition ==
    DecompositionReturned =>
        LET V == memory[qresult.Eigenvectors]
            final == memory[WorkingMatrix(sargs)]
            n == Len(CallerMatrix)
        IN /\ Len(qresult.Eigenvalues) = n
           /\ Len(V) = n
           /\ IsSymmetric(final)
           /\ \A i \in 1..n :
                LET r == Residual(CallerMatrix, qresult.Eigenvalues[i], Column(V, i))
                    off == [k \in 1..n |-> IF k = i THEN Zero ELSE final[k][i]]
                IN /\ qresult.Eigenvalues[i] = final[i][i]
                   /\ SquaredNorm(Column(V, i)) = FInt(1)
                   /\ SquaredNorm(r) = SquaredNorm(off)
                   /\ isConverged(final, sargs.tolerance) =>
                         AtMost(SquaredNorm(r),
                                FMul(FInt(2), FMul(sargs.tolerance, sargs.tolerance)))

\* a decomposition that converged after a QR step, with a non-trivial
\* reflector and a sub-diagonal entry that is small but not zero
C16_Witness ==
    /\ DecompositionReturned
    /\ memory["matrix"] = <<<<-4, -3, 0>>, <<-3, -3, 0>>, <<0, 0, 0>>>>
    /\ exit = "converged"
    /\ iter = 1
    /\ ~IsIdentity(memory["householderMatrix"])
    /\ memory[WorkingMatrix(sargs)][2][1] # Zero
    /\ memory[qresult.Eigenvectors] # memory["householderMatrix"]

\* the matrices the caller handed to the QRMethod call in progress
SuppliedT == given[sargs.tridiagonalMatrix]

SuppliedQ == given[sargs.householderMatrix]

\* |T[i+1,i]| <= tolerance for every i
SubDiagonalWithin(T, tolerance) ==
    \A i \in 1..(Len(T) - 1) : AtMost(FAbs(T[i + 1][i]), tolerance)

\* C17: when every sub-diagonal entry of the matrix passed to QRMethod is
\* within the tolerance, the call makes no shift/QR step, its working matrices
\* stay equal to the arguments, and it returns the diagonal of the argument,
\* in order, with the supplied Q; a call on the converged output of an
\* earlier call returns that call's eigenvalues and eigenvectors.
C17_ConvergedInputIsReturnedUnchanged ==
    /\ (spc \in {"qr", "qdone"} /\ SubDiagonalWithin(SuppliedT, sargs.tolerance)) =>
          /\ iter = 0
          /\ memory[WorkingMatrix(sargs)] = SuppliedT
          /\ memory[AccumulatorMatrix(sargs)] = SuppliedQ
          /\ QRReturned =>
                /\ qresult.Eigenvalues = Diagonal(SuppliedT)
                /\ memory[qresult.Eigenvectors] = SuppliedQ
    /\ (spc \in {"qr", "qdone"} /\ sargs.origin = "again") =>
          /\ SubDiagonalWithin(SuppliedT, sargs.tolerance)
          /\ SuppliedQ = earlier.Eigenvectors
          /\ QRReturned =>
                /\ iter = 0
                /\ qresult.Eigenvalues = earlier.Eigenvalues
                /\ memory[qresult.Eigenvectors] = earlier.Eigenvectors

\* a call with budget left returned at its first test, on a matrix whose
\* sub-diagonal entry is small but not zero and with a Q that is not the
\* identity
C17_Witness ==
    /\ QRReturned
    /\ sargs.origin = "direct"
    /\ sargs.maxIterations = 2
    /\ exit = "converged"
    /\ SuppliedT = <<<<Rat(1, 3), Rat(4, 15)>>, <<Rat(1, 4), Rat(1, 5)>>>>
    /\ SuppliedQ = ReverseIdentity(2)
    /\ qresult.Eigenvalues = <<Rat(1, 3), Rat(1, 5)>>

RECURSIVE StepsFrom(_, _, _)
\* k shift/QR steps from the pair (A, V)
StepsFrom(A, V, k) ==
    IF k <= 0 THEN [A |-> A, V |-> V]
    ELSE StepsFrom(QRStep(A, V).A, QRStep(A, V).V, k - 1)

\* C18: a call of QRMethod makes at most maxIterations shift/QR steps (none
\* when maxIterations <= 0) and returns a result with a nil error: the
\* diagonal of the working matrix and the accumulated V after the steps made.
\* When the budget is used up with a sub-diagonal entry above the tolerance
\* that is what it returns all the same; with maxIterations <= 0 it returns
\* the diagonal of the argument and the supplied Q.
C18_BudgetBoundsTheSteps ==
    (spc \in {"qr", "qdone"}) =>
        /\ iter >= 0
        /\ iter <= (IF sargs.maxIterations > 0 THEN sargs.maxIterations ELSE 0)
        /\ memory[WorkingMatrix(sargs)] = StepsFrom(SuppliedT, SuppliedQ, iter).A
        /\ memory[AccumulatorMatrix(sargs)] = StepsFrom(SuppliedT, SuppliedQ, iter).V
        /\ spc = "qdone" =>
              /\ qresult.status = "ok"
              /\ qresult.Eigenvalues = Diagonal(StepsFrom(SuppliedT, SuppliedQ, iter).A)
              /\ memory[qresult.Eigenvectors] = StepsFrom(SuppliedT, SuppliedQ, iter).V
              /\ exit \in {"converged", "budget"}
              /\ exit = "budget" =>
                    iter = (IF sargs.maxIterations > 0 THEN sargs.maxIterations ELSE 0)
              /\ sargs.maxIterations <= 0 =>
                    /\ qresult.Eigenvalues = Diagonal(SuppliedT)
                    /\ memory[qresult.Eigenvectors] = SuppliedQ

\* the budget of one step is used up on a matrix that the step changed but
\* did not bring within the tolerance
C18_Witness ==
    /\ QRReturned
    /\ memory["matrix"] = <<<<-4, -3, 0>>, <<-3, -3, 0>>, <<0, 0, 0>>>>
    /\ sargs.maxIterations = 1
    /\ iter = 1
    /\ exit = "budget"
    /\ ~SubDiagonalWithin(memory[WorkingMatrix(sargs)], sargs.tolerance)
    /\ qresult.Eigenvalues # Diagonal(SuppliedT)
    /\ memory[qresult.Eigenvectors] # SuppliedQ

\* a call with a negative budget has returned the diagonal of a matrix that
\* is not within the tolerance
C18_WitnessNoBudget ==
    /\ QRReturned
    /\ sargs.maxIterations = -1
    /\ ~SubDiagonalWithin(SuppliedT, sargs.tolerance)
    /\ qresult.Eigenvalues = Diagonal(SuppliedT)

\* the caller's matrix is diagonal
InputIsDiagonal ==
    /\ memory["matrix"] # <<>>
    /\ \A i \in 1..Len(memory["matrix"]) : \A j \in 1..Len(memory["matrix"]) :
          i # j => memory["matrix"][i][j] = 0

\* C19: on a diagonal matrix every pass of HouseholderMethod uses the identity
\* reflector and leaves T = A and Q = I; QRMethod called on the result makes
\* no step, leaves its loop at the first convergence test when it has a
\* budget, and returns the diagonal entries in their order and the identity
\* as the eigenvector matrix.
C19_DiagonalInputNeedsNoWork ==
    InputIsDiagonal =>
        /\ (spc \in {"householder", "hdone"}) =>
              /\ pivot > 0 => IsIdentity(reflector)
              /\ memory["aMinus1"] = CallerMatrix
              /\ IsIdentity(memory["householderMatrix"])
        /\ (spc \in {"qr", "qdone"} /\ sargs.origin = "householder") =>
              /\ iter = 0
              /\ exit # "none" => (exit = "converged" <=> sargs.maxIterations > 0)
              /\ QRReturned =>
                    /\ qresult.Eigenvalues =
                          [i \in 1..Len(memory["matrix"]) |-> FInt(memory["matrix"][i][i])]
                    /\ IsIdentity(memory[qresult.Eigenvectors])

\* diag(5, 3, 1) gives 5, 3, 1 and the standard basis
C19_Witness ==
    /\ DecompositionReturned
    /\ memory["matrix"] = <<<<5, 0, 0>>, <<0, 3, 0>>, <<0, 0, 1>>>>
    /\ pivot = 1
    /\ IsIdentity(reflector)
    /\ exit = "converged"
    /\ qresult.Eigenvalues = <<FInt(5), FInt(3), FInt(1)>>
    /\ memory[qresult.Eigenvectors] = generateIdentityMatrix(3)

\* C20: during and after a call of RegularPower, InversePower,
\* FarthestEigenvaluePower or NearestEigenvaluePower, however it ends, the
\* caller's matrix and initialGuess hold the values passed, and the
\* Eigenvector returned lives in a buffer that is neither of them; during and
\* after a call of HouseholderMethod or QRMethod every buffer the caller owns
\* (its matrix, the tridiagonal and accumulated matrices passed to QRMethod)
\* holds what it held when the call was made, and the matrices returned are
\* buffers the caller did not own.
C20_CallerDataIsNotMutated ==
    /\ pc # "idle" =>
          /\ owned.matrix = call.matrix
          /\ owned.initialGuess = [kind |-> "values", dir |-> call.initialGuess]
          /\ owned.returned \notin {"matrix", "initialGuess"}
          /\ (pc = "done" /\ result.status = "ok") => owned.returned # "none"
    /\ spc # "idle" =>
          /\ \A b \in CallerOwned(sargs) : memory[b] = given[b]
          /\ {WorkingMatrix(sargs), AccumulatorMatrix(sargs)} \cap CallerOwned(sargs) = {}
          /\ HouseholderReturned =>
                {hresult.HouseholderMatrix, hresult.TriangulizedMatrix}
                    \cap CallerOwned(sargs) = {}
          /\ QRReturned => qresult.Eigenvectors \notin CallerOwned(sargs)

\* QRMethod has returned after a step that changed its working matrices,
\* called on what HouseholderMethod returned
C20_Witness ==
    /\ DecompositionReturned
    /\ iter = 1
    /\ memory[WorkingMatrix(sargs)] # SuppliedT
    /\ memory[qresult.Eigenvectors] # SuppliedQ
    /\ memory["aMinus1"] = SuppliedT
    /\ memory["householderMatrix"] = SuppliedQ
    /\ memory["matrix"] = <<<<-4, -3, 0>>, <<-3, -3, 0>>, <<0, 0, 0>>>>

\* a power call has returned after its iterate moved away from the guess
C20_WitnessPower ==
    /\ Returned("RegularPower")
    /\ result.status = "ok"
    /\ call.matrix = <<<<2, 3>>, <<0, -1>>>>
    /\ call.initialGuess = <<1, 1>>
    /\ currentIteration = 2
    /\ owned.initialGuess.dir = <<1, 1>>
    /\ owned.returned = "bestEigenvector"
    /\ result.Eigenvector.dir # <<1, 1>>

\* what the call with arguments `args` returns when nothing runs beside it
AloneResult(args) ==
    LET entry == RegularPowerEntry(args.matrix, args.initialGuess)
        ref == RefCoreRun([num |-> args.matrix, den |-> 1], args.initialGuess,
                          args.epsilon, args.maxNumberOfIterations)
    IN IF entry.outcome = "error" THEN Failure(entry.err)
       ELSE IF entry.outcome = "panic" THEN Panic(entry.err)
       ELSE Success(ref.Eigenvalue, ref.Eigenvector, ref.NumIterations)

\* C21: in every interleaving of the steps of two goroutines calling
\* RegularPower through the same use-case value, each call that returns
\* returns what it returns when run alone.
C21_InterleavedCallsReturnAloneResults ==
    \A thread \in Threads :
        tpc[thread] = "done" => tresult[thread] = AloneResult(tcall[thread])

\* the second goroutine wrote its product between the first one's product and
\* its reading of it, and both have returned
C21_Witness ==
    /\ tpc[1] = "done"
    /\ tpc[2] = "done"
    /\ tcall[1].matrix = <<<<2, 1>>, <<1, 2>>>>
    /\ tcall[1].initialGuess = <<1, 0>>
    /\ tcall[2].matrix = <<<<2, 3>>, <<0, -1>>>>
    /\ tcall[2].initialGuess = <<1, 1>>
    /\ tlocal[1].currentIteration = 2
    /\ tlocal[2].currentIteration = 2
    /\ scratch[1] # scratch[2]
    /\ tresult[1].status = "ok"
    /\ tresult[2].status = "ok"
    /\ tresult[1] # tresult[2]

\* the core ran iteration currentIteration to the end of the loop body on
\* inputs whose shapes fit
CoreIterated ==
    /\ EnteredCore
    /\ RefShapesFit(coreMatrix, call.initialGuess)
    /\ ~GuessIsZero(call.initialGuess)
    /\ currentIteration >= 1
    /\ stop # "zeroNorm"

FMax(x, y) == IF FLess(x, y) THEN y ELSE x

\* |new - old| / max(|new|, |old|, floor): every non-zero value of the model
\* is above the floor, so the floor is the denominator only when both
\* estimates are 0, and the quotient is then 0
FlooredRelativeError(new, old) ==
    IF new = Zero /\ old = Zero THEN Zero
    ELSE FDiv(FAbs(FSub(new, old)), FMax(FAbs(new), FAbs(old)))

\* C22 as stated: after each iteration of the core the error is
\* |new - old| / max(|new|, |old|, floor), a finite number, and the loop has
\* stopped by convergence exactly when that number is below epsilon.
C22_RelativeErrorHasFloor ==
    CoreIterated =>
        LET new == RefEstimate(coreMatrix, call.initialGuess, currentIteration)
            old == RefEstimate(coreMatrix, call.initialGuess, currentIteration - 1)
        IN /\ IsFinite(currentError)
           /\ currentError = FlooredRelativeError(new, old)
           /\ stop = "converged" <=> FLess(FlooredRelativeError(new, old), call.epsilon)

\* column j (from 0) of M is zero in the rows j+2..n-1
ColumnZeroBelowSubDiagonal(M, j) ==
    \A i \in 1..Len(M) : i > j + 2 => M[i][j + 1] = Zero

HasNonZeroSubDiagonal(M) ==
    \A i \in 1..(Len(M) - 1) : M[i + 1][i] # Zero

\* C23 as stated: at a pivot column whose entries in the rows j+2..n-1 are
\* all zero the reflector of HouseholderMethod's next pass is the identity,
\* and for a symmetric tridiagonal input with non-zero sub-diagonal the
\* call returns Q = I and T = the input.
C23_TridiagonalInputIsFixed ==
    /\ (/\ spc = "householder"
        /\ pivot < Len(memory["matrix"]) - 2
        /\ ColumnZeroBelowSubDiagonal(memory["aMinus1"], pivot))
          => IsIdentity(householderSimetricMatrix(memory["aMinus1"], pivot))
    /\ (/\ HouseholderReturned
        /\ Len(memory["matrix"]) >= 3
        /\ IsTridiagonal(CallerMatrix)
        /\ HasNonZeroSubDiagonal(CallerMatrix))
          => /\ IsIdentity(memory[hresult.HouseholderMatrix])
             /\ memory[hresult.TriangulizedMatrix] = CallerMatrix

ShiftReturned == gpc = "shifted"

\* C24: wilkinsonShift returns 0 for a 1 x 1 matrix; for the trailing block
\* [[a,b],[c,d]] it returns d when trace^2 - 4*det < 0 and otherwise a root
\* of x^2 - trace*x + det that is at least as close to d as the other root,
\* the smaller root when both are equally close.
C24_WilkinsonShiftPicksNearerRoot ==
    ShiftReturned =>
        LET A == gargs.A
            n == Len(A)
            a == A[n - 1][n - 1]
            b == A[n - 1][n]
            c == A[n][n - 1]
            d == A[n][n]
            trace == FAdd(a, d)
            det == FSub(FMul(a, d), FMul(b, c))
            other == FSub(trace, gout)
        IN IF n < 2 THEN gout = Zero
           ELSE IF FLess(FSub(FMul(trace, trace), FMul(FInt(4), det)), Zero)
               THEN gout = d
           ELSE /\ FAdd(FSub(FMul(gout, gout), FMul(trace, gout)), det) = Zero
                /\ ~FLess(FAbs(FSub(d, other)), FAbs(FSub(d, gout)))
                /\ FAbs(FSub(d, other)) = FAbs(FSub(d, gout)) => ~FLess(other, gout)

\* the roots 1 and 3 of [[2,1],[1,2]] are equally far from d = 2 and the
\* smaller one is returned
C24_Witness ==
    /\ ShiftReturned
    /\ gargs.A = Dense(<<<<2, 1>>, <<1, 2>>>>)
    /\ gout = FInt(1)

\* a block whose nearer root is the larger one, and is not d
C24_WitnessPlusRoot ==
    /\ ShiftReturned
    /\ gargs.A = Dense(<<<<0, 1>>, <<2, 1>>>>)
    /\ gout = FInt(2)

\* a block with a negative discriminant
C24_WitnessComplex ==
    /\ ShiftReturned
    /\ gargs.A = Dense(<<<<1, 1>>, <<-1, 1>>>>)
    /\ gout = FInt(1)

SweepStarted == gpc \in {"sweep", "swept"}

\* C25: on an n x n tridiagonal input, the passes of qrDecompositionGivens
\* made so far rotated exactly at the indices whose sub-diagonal entry was
\* not numerically zero when the pass tested it, hence at most n-1 times;
\* the entry below the diagonal is zero in every column a rotation was
\* applied to; Q is orthogonal and Q * R is the input throughout, and on
\* return all n-1 passes have been made.
C25_GivensSweepFactorsInput ==
    (SweepStarted /\ IsTridiagonal(gargs.A)) =>
        LET n == Len(gargs.A)
        IN /\ Len(passes) = sweepIndex
           /\ sweepIndex <= (IF n > 1 THEN n - 1 ELSE 0)
           /\ \A k \in 1..Len(passes) :
                 /\ passes[k].rotated <=> passes[k].entry # Zero
                 /\ passes[k].rotated => sweepR[k + 1][k] = Zero
           /\ IsIdentity(Mul(Transpose(sweepQ), sweepQ))
           /\ Mul(sweepQ, sweepR) = gargs.A
           /\ gpc = "swept" =>
                 /\ sweepIndex = (IF n > 1 THEN n - 1 ELSE 0)
                 /\ gout = [Q |-> sweepQ, R |-> sweepR]

\* a 4 x 4 sweep that skipped its first pass and rotated in the other two
C25_Witness ==
    /\ gpc = "swept"
    /\ gargs.A = Dense(<<<<2, 0, 0, 0>>, <<0, 3, 4, 0>>, <<0, 4, -3, 12>>, <<0, 0, 12, 1>>>>)
    /\ passes[1].rotated = FALSE
    /\ passes[2].rotated = TRUE
    /\ passes[3].rotated = TRUE
    /\ ~IsIdentity(gout.Q)
    /\ gout.R # gargs.A

RotationReturned == gpc = "rotated"

\* C26 as stated: the cosine givensRotation returns is never negative, and
\* the pair is (1, 0) whenever b is numerically zero.
C26_CosineIsNonNegative ==
    RotationReturned =>
        /\ ~FLess(gout[1], Zero)
        /\ BelowThreshold(gargs.b) => gout = <<FInt(1), Zero>>

\* the first product of the run, matrix * guess, is the zero vector
FirstProductIsZero ==
    /\ RefShapesFit(coreMatrix, call.initialGuess)
    /\ ~GuessIsZero(call.initialGuess)
    /\ IsZeroVec(RefPow(coreMatrix.num, call.initialGuess, 1))

\* C27: for epsilon <= 1, the error after the core's first iteration is 1 or
\* NaN and the loop has not stopped by convergence there; a result with
\* NumIterations = 1 is returned only when maxNumberOfIterations = 1 or the
\* first product had zero norm, and with a larger budget and a non-zero
\* first product NumIterations >= 2.
C27_NoConvergenceAtFirstIteration ==
    (EnteredCore /\ ~FLess(FInt(1), call.epsilon)) =>
        /\ (currentIteration = 1 /\ products = 1 /\ stop # "zeroNorm") =>
              /\ currentError \in {FInt(1), NaN}
              /\ stop # "converged"
        /\ (pc = "done" /\ result.status = "ok") =>
              /\ result.NumIterations = 1 =>
                    (call.maxNumberOfIterations = 1 \/ FirstProductIsZero)
              /\ (call.maxNumberOfIterations >= 2 /\ ~FirstProductIsZero) =>
                    result.NumIterations >= 2

\* epsilon = 1 and a guess that is an exact eigenvector: the estimate of
\* iteration 1 is already the eigenvalue, and the run stops at iteration 2
C27_Witness ==
    /\ pc = "done"
    /\ result.status = "ok"
    /\ call.op = "RegularPower"
    /\ call.epsilon = FInt(1)
    /\ call.maxNumberOfIterations = MaxIter
    /\ stop = "converged"
    /\ result.NumIterations = 2
    /\ RefEstimate(coreMatrix, call.initialGuess, 1) = RefEstimate(coreMatrix, call.initialGuess, 2)
    /\ result.Eigenvalue = RefEstimate(coreMatrix, call.initialGuess, 1)

InversePowerSucceeded ==
    /\ pc = "done"
    /\ call.op = "InversePower"
    /\ EnteredCore
    /\ result.status = "ok"

\* C28 as stated: whenever InversePower returns a result with a nil error
\* the estimate of the core that it inverts is not 0 and the Eigenvalue it
\* reports is a finite number.
C28_InvertedEstimateIsNonZero ==
    InversePowerSucceeded =>
        /\ bestEigenvalue # Zero
        /\ IsFinite(result.Eigenvalue)

----------------------------------------------------------------------------
(* The eigen screen of the TUI: keys and EigenModel.generateResult          *)

MaxTuiIter == 2

\* the vectors, budgets and shifts a user types into the argument inputs
TuiVectors == { <<1, 1>>, <<0, 0>>, <<1, 1, 1>>, <<1, 0, 0, 0>> }

TuiShifts == { -1, 0, 2 }

\* what the use case's method returns on these arguments, the core run to
\* its end
PowerCall(method, matrix, vector, k, epsilon, maxIterations, factorized) ==
    LET entry ==
            CASE method = PowerMethodRegular -> RegularPowerEntry(matrix, vector)
              [] method = PowerMethodInverse -> InversePowerEntry(matrix, vector)
              [] method = PowerMethodFarthest ->
                    FarthestEigenvaluePowerEntry(matrix, vector, k)
              [] OTHER -> NearestEigenvaluePowerEntry(matrix, vector, k)
        run == RefCoreRun(entry.matrix, vector, epsilon, maxIterations)
        inner == [Eigenvalue |-> run.Eigenvalue, Eigenvector |-> run.Eigenvector,
                  NumIterations |-> run.NumIterations]
    IN IF entry.outcome = "error" THEN Failure(entry.err)
       ELSE IF entry.outcome = "panic" THEN Panic(entry.err)
       ELSE IF run.panic THEN Panic("mat: dimension mismatch")
       ELSE CASE method = PowerMethodRegular -> RegularPowerReturn(inner)
              [] method = PowerMethodInverse -> InversePowerReturn(inner)
              [] method = PowerMethodFarthest ->
                    FarthestEigenvaluePowerReturn(inner, constructMatrix(matrix), k,
                                                  factorized)
              [] OTHER ->
                    NearestEigenvaluePowerReturn(inner, constructMatrix(matrix), k,
                                                 factorized)

\* handleUp in the power method section
HandleUpPowerMethod ==
    /\ TuiFrame
    /\ eigenModel' = [eigenModel EXCEPT !.selectedPowerMethod =
                         IF @ > 0 THEN @ - 1 ELSE 3]
    /\ UNCHANGED generated

\* handleDown in the power method section
HandleDownPowerMethod ==
    /\ TuiFrame
    /\ eigenModel' = [eigenModel EXCEPT !.selectedPowerMethod =
                         IF @ < 3 THEN @ + 1 ELSE 0]
    /\ UNCHANGED generated

\* handleUp in the matrix section
HandleUpMatrix ==
    /\ TuiFrame
    /\ eigenModel' = [eigenModel EXCEPT !.selectedMatrix =
                         IF @ > 0 THEN @ - 1 ELSE Len(predefinedMatrices) - 1]
    /\ UNCHANGED generated

\* handleDown in the matrix section
HandleDownMatrix ==
    /\ TuiFrame
    /\ eigenModel' = [eigenModel EXCEPT !.selectedMatrix =
                         IF @ < Len(predefinedMatrices) - 1 THEN @ + 1 ELSE 0]
    /\ UNCHANGED generated

\* a key typed in the arguments section: each input that parses sets its field
TypeArguments ==
    /\ TuiFrame
    /\ \E vector \in TuiVectors, maxIterations \in 0..MaxTuiIter, k \in TuiShifts :
          eigenModel' = [eigenModel EXCEPT !.initialVector = vector,
                                           !.maxIterations = maxIterations,
                                           !.kEigenvalue = k]
    /\ UNCHANGED generated

\* the rest of generateResult once the selected method has returned `called`
\* to the variables powerResult and err of the function
FormatResult(method, called) ==
    LET shadowed == method \in {PowerMethodFarthest, PowerMethodNearest}
        \* in the last two cases `eigenvalue, err := ...` declares a new err
        errIsNil == shadowed \/ called.status = "ok"
        powerResultIsNil == called.status # "ok"
        powerResult ==
            IF shadowed
            THEN [Eigenvalue |-> called.Eigenvalue,
                  Eigenvector |-> eigenModel.initialVector,
                  Iterations |-> eigenModel.maxIterations]
            ELSE [Eigenvalue |-> called.Eigenvalue,
                  Eigenvector |-> called.Eigenvector.dir,
                  Iterations |-> called.NumIterations]
    IN IF ~errIsNil
       THEN /\ eigenModel' = [eigenModel EXCEPT !.result =
                                 ErrorMessage("Error calculating eigenvalue")]
            /\ generated' = [status |-> "returned", callStatus |-> called.status,
                             read |-> FALSE, nilDereference |-> FALSE]
       ELSE IF powerResultIsNil
       THEN \* powerResult.Eigenvalue on a nil pointer
            /\ UNCHANGED eigenModel
            /\ generated' = [status |-> "panic", callStatus |-> called.status,
                             read |-> TRUE, nilDereference |-> TRUE]
       ELSE /\ eigenModel' = [eigenModel EXCEPT !.result =
                                 [kind |-> "result", text |-> "",
                                  Eigenvalue |-> powerResult.Eigenvalue,
                                  Eigenvector |-> powerResult.Eigenvector,
                                  Iterations |-> powerResult.Iterations]]
            /\ generated' = [status |-> "returned", callStatus |-> called.status,
                             read |-> TRUE, nilDereference |-> FALSE]

\* generateResult, on Enter at the calculate button
GenerateResult ==
    /\ TuiFrame
    /\ LET index == eigenModel.selectedMatrix
           matrix == predefinedMatrices[index + 1]
           method == eigenModel.selectedPowerMethod
           rejected(text) ==
               /\ eigenModel' = [eigenModel EXCEPT !.result = ErrorMessage(text)]
               /\ generated' = [status |-> "returned", callStatus |-> "none",
                                read |-> FALSE, nilDereference |-> FALSE]
       IN IF index < 0 \/ index >= Len(predefinedMatrices)
          THEN rejected("Invalid matrix selection")
          ELSE IF Len(eigenModel.initialVector) # Len(matrix)
          THEN rejected("Initial vector dimension must match matrix dimension")
          ELSE IF \A i \in 1..Len(eigenModel.initialVector) :
                      eigenModel.initialVector[i] = 0
          THEN rejected("Initial vector cannot be zero")
          ELSE IF method \notin PowerMethodRegular..PowerMethodNearest
          THEN rejected("Unknown power method selected")
          ELSE \E factorized \in BOOLEAN :
                  LET called == PowerCall(method, matrix, eigenModel.initialVector,
                                          eigenModel.kEigenvalue, eigenModel.epsilon,
                                          eigenModel.maxIterations, factorized)
                  IN IF called.status = "panic"
                     THEN /\ UNCHANGED eigenModel
                          /\ generated' = [status |-> "panic", callStatus |-> "panic",
                                           read |-> FALSE, nilDereference |-> FALSE]
                     ELSE FormatResult(method, called)

TuiNext ==
    \/ HandleUpPowerMethod
    \/ HandleDownPowerMethod
    \/ HandleUpMatrix
    \/ HandleDownMatrix
    \/ TypeArguments
    \/ GenerateResult

TuiSpec == Init /\ [][TuiNext]_vars

PowerCallFailed == generated.status # "none" /\ generated.callStatus = "error"

\* C29 as stated: whenever the power-method call that generateResult made
\* returned an error, generateResult returned with an error message as
\* m.result and without reading a field of powerResult; a nil powerResult is
\* never dereferenced.
C29_ErrorIsDisplayedNotDereferenced ==
    /\ PowerCallFailed =>
          /\ generated.status = "returned"
          /\ eigenModel.result.kind = "error"
          /\ ~generated.read
    /\ ~generated.nilDereference

\* Calculate ran its loop on numberOfPartitions >= 1 and left < right
PartitionedRun ==
    /\ ipc \in {"loop", "done"}
    /\ icall.numberOfPartitions >= 1
    /\ icall.leftInterval < icall.rightInterval
    /\ icall.allowPartitioning

\* C30 as stated: with N = numberOfPartitions >= 1 and left < right, no
\* sub-interval handed to Integrate starts at or beyond rightInterval or
\* ends beyond it, and a Calculate that returns an area has invoked
\* Integrate exactly N times, on the consecutive sub-intervals of width
\* (right - left)/N that tile [left, right].
C30_IntegrateCalledOncePerPartition ==
    PartitionedRun =>
        LET right == FInt(icall.rightInterval)
            start(k) == FAdd(FInt(icall.leftInterval), FMul(FInt(k - 1), icall.delta))
        IN /\ \A k \in 1..Len(intervals) :
                 /\ intervals[k] = <<start(k), start(k + 1)>>
                 /\ FLess(intervals[k][1], right)
                 /\ FLessOrEqual(intervals[k][2], right)
           /\ (ipc = "done" /\ ireturn.status = "ok") =>
                 Len(intervals) = icall.numberOfPartitions

====
